---- MODULE Spec2Model ----
(***************************************************************************)
(* Model of the media resolution engine of backend/: the format catalog    *)
(* builders (platforms/base.py analyze_platform, platforms/youtube.py      *)
(* analyze), the SQLite TTL cache (utils/cache.py) and the per-source      *)
(* analyze entry points (platforms/*.py).                                  *)
(*                                                                         *)
(* Conventions: an absent / None integer is 0 (the code reads every such   *)
(* field as `x or 0`), an absent string or URL is "" / 0.                  *)
(***************************************************************************)
EXTENDS Integers, Sequences, FiniteSets, TLC

VARIABLES
    raw,        \* catalog builder: the raw format descriptors handed to it
    built,      \* catalog builder: the catalog it returned
    pcCat,      \* catalog builder: "input" before the call, "built" after
    store,      \* cache: table video_cache, url_hash -> row
    now,        \* cache: int(time.time())
    ticks,      \* cache: number of clock advances so far
    lastOp,     \* cache: the last cache operation and what it returned
    hist,       \* cache: per (url, platform), the last completed set
    call,       \* resolver: the last completed analyze call and its outcome
    fbme_cache, \* resolver: facebook.py _fbme_cache entry of the short link
    plan,       \* planner: the last completed prepare_download call
    conc,       \* cache under concurrency: where each caller stands in its
                \* get or set, and the last committed set
    ydl,        \* options: the environment, and the yt-dlp options last
                \* handed to YoutubeDL
    ig,         \* instagram.analyze: what analyze_platform returned and
                \* what analyze made of it
    task,       \* universal_download_task: one run of the task
    jobs        \* main_api: table downloads and the background work

vars ==
    <<raw, built, pcCat, store, now, ticks, lastOp, hist, call, fbme_cache, plan,
      conc, ydl, ig, task, jobs>>

catVars == <<raw, built, pcCat>>
cacheVars == <<store, now, ticks, lastOp, hist>>

-----------------------------------------------------------------------------
(* Generic helpers *)

\* Sequences over S of length 0..n
SeqsUpTo(S, n) == UNION {[1..k -> S] : k \in 0..n}

\* str.lower() / str.upper() on the container extensions that occur
Lower(s) ==
    CASE s = "MP4" -> "mp4"
      [] s = "WEBM" -> "webm"
      [] s = "M4A" -> "m4a"
      [] s = "JPG" -> "jpg"
      [] OTHER -> s

Upper(s) ==
    CASE s = "mp4" -> "MP4"
      [] s = "webm" -> "WEBM"
      [] s = "m4a" -> "M4A"
      [] s = "jpg" -> "JPG"
      [] OTHER -> s

B2I(b) == IF b THEN 1 ELSE 0

\* Python's tuple comparison a < b on equal-length integer tuples
TupleLess(a, b) ==
    \E i \in 1..Len(a) :
        /\ a[i] < b[i]
        /\ \A j \in 1..(i - 1) : a[j] = b[j]

TupleLeq(a, b) == a = b \/ TupleLess(a, b)

-----------------------------------------------------------------------------
(* Raw format descriptors, as the extractor reports them *)

MaxFormats == 2

Heights == {360, 720}
WidthOf(h) == IF h = 720 THEN 1280 ELSE IF h = 360 THEN 640 ELSE 0
FpsValues == {30}
VideoExts == {"mp4", "webm"}
Bitrates == {500, 800}

\* A descriptor before its position in the list gives it a format_id and url
VideoShapes ==
    [height : Heights, fps : FpsValues, ext : VideoExts,
     vcodec : {"avc1"}, acodec : {"mp4a", "none"},
     hasurl : BOOLEAN, tbr : Bitrates,
     protocol : {"https"}, format_note : {""}, filesize : {0}]

AudioShape ==
    [height |-> 0, fps |-> 0, ext |-> "m4a", vcodec |-> "none", acodec |-> "mp4a",
     hasurl |-> TRUE, tbr |-> 128, protocol |-> "https", format_note |-> "",
     filesize |-> 0]

HlsShape ==
    [height |-> 720, fps |-> 30, ext |-> "mp4", vcodec |-> "avc1", acodec |-> "mp4a",
     hasurl |-> TRUE, tbr |-> 800, protocol |-> "m3u8_native", format_note |-> "",
     filesize |-> 0]

PremiumShape ==
    [height |-> 720, fps |-> 30, ext |-> "mp4", vcodec |-> "avc1", acodec |-> "none",
     hasurl |-> TRUE, tbr |-> 800, protocol |-> "https", format_note |-> "Premium",
     filesize |-> 0]

\* a stream whose descriptor names neither codec (the keys are absent)
NoCodecShape ==
    [height |-> 720, fps |-> 60, ext |-> "mp4", vcodec |-> "", acodec |-> "",
     hasurl |-> TRUE, tbr |-> 800, protocol |-> "https", format_note |-> "",
     filesize |-> 0]

\* a stream whose size in bytes the upstream reports (filesize)
SizedShape ==
    [height |-> 360, fps |-> 60, ext |-> "mp4", vcodec |-> "avc1", acodec |-> "mp4a",
     hasurl |-> TRUE, tbr |-> 500, protocol |-> "https", format_note |-> "",
     filesize |-> 2621440]

RawShapes == VideoShapes \cup {AudioShape, HlsShape, PremiumShape, NoCodecShape, SizedShape}

\* format ids are strings; the i-th descriptor of a list is named after i
FmtIds == <<"f1", "f2", "f3", "f4", "f5", "f6", "f7", "f8", "f9">>

\* The i-th descriptor of a list: format_id FmtIds[i], and url i when it has
\* one (so two descriptors of one list never share an id or a URL).
MkRaw(shape, i) ==
    [format_id |-> FmtIds[i], height |-> shape.height, width |-> WidthOf(shape.height),
     fps |-> shape.fps, ext |-> shape.ext, vcodec |-> shape.vcodec,
     acodec |-> shape.acodec, url |-> IF shape.hasurl THEN i ELSE 0,
     tbr |-> shape.tbr, protocol |-> shape.protocol,
     format_note |-> shape.format_note, filesize |-> shape.filesize]

RawLists == {[i \in 1..Len(s) |-> MkRaw(s[i], i)] : s \in SeqsUpTo(RawShapes, MaxFormats)}

-----------------------------------------------------------------------------
(* The preference tuple (youtube.py pref_tuple and the sort key) *)

pref_tuple(is_prog, ext, has_direct, height, fps, tbr) ==
    <<B2I(is_prog), B2I(Lower(ext) = "mp4"), B2I(has_direct), height, fps, tbr>>

EntryTuple(e) ==
    pref_tuple(e.is_progressive, e.ext, e.has_direct_url, e.height, e.fps, e.tbr)

-----------------------------------------------------------------------------
(* Raw info objects (one extractor answer) *)

\* An item: the keys the builders read. imgkeys holds which of the image
\* keys ("display_resources", "thumbnails", "url") are present in the dict.
MkItem(id, formats, duration, imgkeys, imgurls) ==
    [id |-> id, title |-> id, formats |-> formats, duration |-> duration,
     imgkeys |-> imgkeys, imgurls |-> imgurls]

\* info: a single item (type "video") or a playlist of entries
MkInfo(type, item, entries) == [type |-> type, item |-> item, entries |-> entries]

SingleInfo(item) == MkInfo("video", item, <<>>)

-----------------------------------------------------------------------------
(* Sizes: megabytes are kept in tenths, as round(x, 1) leaves them *)

BytesPerMb == 1048576

\* round(num / den, 1) in tenths: to the nearest tenth, a tie to the even one
RoundTenths(num, den) ==
    LET q == (10 * num) \div den
        rem == (10 * num) % den
    IN  IF 2 * rem > den THEN q + 1
        ELSE IF 2 * rem = den THEN q + (q % 2)
        ELSE q

\* the 'size' text: f"{mb:.1f} MB", the same behind the almost-equal sign
\* (mark "~"), or 'Unknown size' (mb = 0; an entry without the key reads the
\* same)
SizeText(mark, mb) == [mark |-> mark, mb |-> mb]
UnknownSize == SizeText("", 0)

-----------------------------------------------------------------------------
(* base.py: _build_image_formats *)

ImageFormat(fid, url) ==
    [format_id |-> fid, ext |-> "jpg", height |-> 0, fps |-> 0, url |-> url,
     has_direct_url |-> FALSE, is_progressive |-> FALSE, vcodec |-> "", acodec |-> "",
     tbr |-> 0, filesize_mb |-> 0, estimated_size_mb |-> 0,
     size |-> UnknownSize, type |-> "image", source |-> ""]

\* f"img{idx}" for display_resources; thumbnails keep their own 'id'
ImgIds == <<"img0", "img1", "img2", "img3">>
ThumbIds == <<"0", "1", "2", "3">>

build_image_formats(item) ==
    IF "display_resources" \in item.imgkeys
    THEN [i \in 1..Len(item.imgurls) |-> ImageFormat(ImgIds[i], item.imgurls[i])]
    ELSE IF "thumbnails" \in item.imgkeys
    THEN [i \in 1..Len(item.imgurls) |-> ImageFormat(ThumbIds[i], item.imgurls[i])]
    ELSE IF "url" \in item.imgkeys
    THEN << ImageFormat(ImgIds[1], item.imgurls[1]) >>
    ELSE <<>>

-----------------------------------------------------------------------------
(* base.py: analyze_platform, the catalog it builds from one info *)

ExtOrMp4(f) == IF f.ext = "" THEN "mp4" ELSE f.ext

\* lines 448-456: a real MP4 video format exists
HasVideoMp4(fmts) ==
    \E i \in 1..Len(fmts) :
        Lower(ExtOrMp4(fmts[i])) = "mp4" /\ (fmts[i].height > 0 \/ fmts[i].width > 0)

BaseKey(f) == <<f.height, f.fps, Lower(ExtOrMp4(f)), f.tbr>>

BaseEligible(f) ==
    ~((f.height <= 0 /\ f.width <= 0) \/ Lower(ExtOrMp4(f)) # "mp4")

\* lines 482-496: the reported size, else the estimate in bytes from
\* duration (s) and tbr (kbps), int((dur * tbr * 1000) / 8)
BaseEstimated(f, dur) == IF f.filesize = 0 THEN (dur * f.tbr * 1000) \div 8 ELSE 0

BaseSize(f, dur) ==
    IF f.filesize # 0 THEN SizeText("", RoundTenths(f.filesize, BytesPerMb))
    ELSE IF BaseEstimated(f, dur) # 0
    THEN SizeText("~", RoundTenths(BaseEstimated(f, dur), BytesPerMb))
    ELSE UnknownSize

BaseVideoEntry(f, dur) ==
    [format_id |-> f.format_id, ext |-> Upper(Lower(ExtOrMp4(f))),
     height |-> f.height, fps |-> f.fps, url |-> f.url,
     has_direct_url |-> f.url # 0,
     is_progressive |-> (f.vcodec # "none" /\ f.acodec # "none"),
     vcodec |-> f.vcodec, acodec |-> f.acodec, tbr |-> f.tbr,
     filesize_mb |-> IF f.filesize # 0 THEN RoundTenths(f.filesize, BytesPerMb) ELSE 0,
     estimated_size_mb |-> IF f.filesize = 0 /\ BaseEstimated(f, dur) # 0
                           THEN RoundTenths(BaseEstimated(f, dur), BytesPerMb) ELSE 0,
     size |-> BaseSize(f, dur),
     type |-> "video", source |-> ""]

\* Variant without the `if key in seen: continue` test
BaseVideoStepNoSeen(acc, f, dur) ==
    IF ~BaseEligible(f) THEN acc
    ELSE [seen |-> acc.seen \cup {BaseKey(f)}, out |-> Append(acc.out, BaseVideoEntry(f, dur))]

\* lines 468-514: one iteration of the video loop
BaseVideoStep(acc, f, dur) ==
    IF ~BaseEligible(f) THEN acc
    ELSE IF BaseKey(f) \in acc.seen THEN acc
    ELSE [seen |-> acc.seen \cup {BaseKey(f)}, out |-> Append(acc.out, BaseVideoEntry(f, dur))]

RECURSIVE BaseVideoLoop(_, _, _)
\* `for f in fmts:` at line 468
BaseVideoLoop(acc, fmts, dur) ==
    IF fmts = <<>> THEN acc
    ELSE BaseVideoLoop(BaseVideoStep(acc, Head(fmts), dur), Tail(fmts), dur)

BaseVideoFormats(fmts, dur) == BaseVideoLoop([seen |-> {}, out |-> <<>>], fmts, dur).out

\* lines 445-553: one normalized item
BaseNormalizeItem(item) ==
    LET is_video == HasVideoMp4(item.formats)
        video_formats == IF is_video THEN BaseVideoFormats(item.formats, item.duration) ELSE <<>>
        image_formats == IF is_video THEN <<>> ELSE build_image_formats(item)
    IN  [id |-> item.id, title |-> item.title, duration |-> item.duration,
         \* 'formats': video_formats + image_formats (audio_formats is not included)
         formats |-> video_formats \o image_formats,
         media_type |-> IF is_video THEN "video" ELSE "image"]

OfType(fmts, t) == SelectSeq(fmts, LAMBDA f : f.type = t)

RECURSIVE Flatten(_)
Flatten(ss) == IF ss = <<>> THEN <<>> ELSE Head(ss) \o Flatten(Tail(ss))

\* lines 442-593, for a truthy info with at least one entry
BaseResult(info, platform_name) ==
    LET entries == IF info.type = "playlist" THEN info.entries ELSE << info.item >>
        items == [i \in 1..Len(entries) |-> BaseNormalizeItem(entries[i])]
        first == items[1]
        all_images == Flatten([i \in 1..Len(items) |-> OfType(items[i].formats, "image")])
        instant == /\ platform_name = "facebook"
                   /\ \E i \in 1..Len(items) : \E j \in 1..Len(items[i].formats) :
                        LET f == items[i].formats[j]
                        IN  f.type = "video" /\ Upper(f.ext) = "MP4" /\ f.is_progressive
    IN  [title |-> first.title, duration |-> first.duration,
         media_type |-> first.media_type,
         mp4 |-> OfType(first.formats, "video"),
         mp3 |-> OfType(first.formats, "audio"),
         jpg |-> OfType(first.formats, "image"),
         images |-> all_images,
         items |-> items, count |-> Len(items),
         instant_available |-> instant,
         keys |-> {"title", "duration", "media_type", "mp4", "mp3", "jpg", "images",
                   "items", "count", "instant_available"}]

-----------------------------------------------------------------------------
(* youtube.py: analyze, the catalog it builds from the combined formats *)

\* HLS_PATTERN on protocol, PREMIUM_PATTERN on format_note (re.IGNORECASE)
HLS_PATTERN(protocol) == protocol \in {"m3u8", "m3u8_native", "hls"}
PREMIUM_PATTERN(note) == note \in {"Premium", "premium", "storyboard"}

YtEligible(f) ==
    /\ ~(HLS_PATTERN(f.protocol) \/ PREMIUM_PATTERN(f.format_note))
    /\ f.height > 0

YtKey(f) == <<f.height, f.fps, ExtOrMp4(f)>>

YtProgressive(f) ==
    (f.vcodec # "" /\ f.vcodec # "none") /\ (f.acodec # "" /\ f.acodec # "none")

\* lines 156-163: the reported size, else tbr (kbps) * duration (s) / 8 / 1024
YtFilesizeMb(f, duration) ==
    IF f.filesize > 0 THEN RoundTenths(f.filesize, BytesPerMb)
    ELSE IF duration # 0 /\ f.tbr # 0 THEN RoundTenths(f.tbr * duration, 8 * 1024)
    ELSE 0

YtEntry(f, duration) ==
    [format_id |-> f.format_id, ext |-> ExtOrMp4(f),
     height |-> f.height, fps |-> f.fps,
     url |-> IF YtProgressive(f) /\ f.url # 0 THEN f.url ELSE 0,
     has_direct_url |-> f.url # 0,
     is_progressive |-> YtProgressive(f),
     vcodec |-> f.vcodec, acodec |-> f.acodec, tbr |-> f.tbr,
     filesize_mb |-> YtFilesizeMb(f, duration), estimated_size_mb |-> 0,
     size |-> UnknownSize,
     type |-> "video", source |-> ""]

\* position of key k in the insertion-ordered dict m, 0 when absent
MapIndex(m, k) ==
    IF \E i \in 1..Len(m) : m[i].key = k
    THEN CHOOSE i \in 1..Len(m) : m[i].key = k
    ELSE 0

\* Variant with `if new_score < old_score: continue`: an equal newcomer replaces
YtDedupStepReplaceOnTie(m, f, duration) ==
    IF ~YtEligible(f) THEN m
    ELSE LET idx == MapIndex(m, YtKey(f))
             new_entry == YtEntry(f, duration)
         IN  IF idx = 0 THEN Append(m, [key |-> YtKey(f), entry |-> new_entry])
             ELSE IF TupleLess(EntryTuple(new_entry), EntryTuple(m[idx].entry)) THEN m
             ELSE [m EXCEPT ![idx].entry = new_entry]

\* lines 137-190: one iteration of the loop over source_formats
YtDedupStep(m, f, duration) ==
    IF ~YtEligible(f) THEN m
    ELSE LET idx == MapIndex(m, YtKey(f))
             new_entry == YtEntry(f, duration)
         IN  IF idx = 0 THEN Append(m, [key |-> YtKey(f), entry |-> new_entry])
             ELSE IF TupleLeq(EntryTuple(new_entry), EntryTuple(m[idx].entry)) THEN m
             ELSE [m EXCEPT ![idx].entry = new_entry]

RECURSIVE YtDedupLoop(_, _, _)
\* `for f in source_formats:` at line 137
YtDedupLoop(m, fmts, duration) ==
    IF fmts = <<>> THEN m
    ELSE YtDedupLoop(YtDedupStep(m, Head(fmts), duration), Tail(fmts), duration)

\* formats_map after the loop, in dict insertion order
YtFormatsMap(fmts, duration) == YtDedupLoop(<<>>, fmts, duration)

\* list.sort(key=..., reverse=True): stable, descending by the preference tuple.
\* Insert e after every element whose tuple is >= e's.
SortInsertDesc(sorted, e) ==
    LET n == Cardinality({i \in 1..Len(sorted) :
                            TupleLeq(EntryTuple(e), EntryTuple(sorted[i]))})
    IN  SubSeq(sorted, 1, n) \o <<e>> \o SubSeq(sorted, n + 1, Len(sorted))

RECURSIVE SortLoop(_, _)
SortLoop(sorted, entries) ==
    IF entries = <<>> THEN sorted
    ELSE SortLoop(SortInsertDesc(sorted, Head(entries)), Tail(entries))

\* lines 192-201
YtSorted(entries) == SortLoop(<<>>, entries)

YtVideoFormats(fmts, duration) ==
    LET m == YtFormatsMap(fmts, duration)
    IN  YtSorted([i \in 1..Len(m) |-> m[i].entry])

\* lines 203-219: instant audio entries of the first five audio-only formats
YtAudioOnly(f) ==
    (f.acodec # "" /\ f.acodec # "none") /\ (f.vcodec = "" \/ f.vcodec = "none")

YtAudioEntry(f) ==
    [format_id |-> f.format_id, ext |-> Upper(IF f.ext = "" THEN "m4a" ELSE f.ext),
     height |-> 0, fps |-> 0, url |-> f.url, has_direct_url |-> f.url # 0,
     is_progressive |-> FALSE, vcodec |-> "", acodec |-> "",
     tbr |-> IF f.tbr = 0 THEN 128 ELSE f.tbr,
     filesize_mb |-> IF f.filesize > 0 THEN RoundTenths(f.filesize, BytesPerMb) ELSE 0,
     estimated_size_mb |-> 0,
     size |-> IF f.filesize > 0 THEN SizeText("", RoundTenths(f.filesize, BytesPerMb))
              ELSE UnknownSize,
     type |-> "audio", source |-> ""]

\* lines 226-237: the fixed-bitrate conversion options
Mp3PresetIds == <<"mp3_128", "mp3_192", "mp3_320">>
Mp3PresetRates == <<128, 192, 320>>

\* line 227: est_mb from the preset's bitrate and the duration
YtPresetMb(i, duration_sec) ==
    IF duration_sec # 0 THEN RoundTenths(Mp3PresetRates[i] * duration_sec, 8 * 1024) ELSE 0

YtMp3Preset(i, duration_sec) ==
    [format_id |-> Mp3PresetIds[i], ext |-> "MP3", height |-> 0, fps |-> 0, url |-> 0,
     has_direct_url |-> FALSE, is_progressive |-> FALSE, vcodec |-> "", acodec |-> "",
     tbr |-> Mp3PresetRates[i],
     filesize_mb |-> YtPresetMb(i, duration_sec), estimated_size_mb |-> 0,
     size |-> SizeText("", YtPresetMb(i, duration_sec)),
     type |-> "audio", source |-> ""]

YtAudioFormats(fmts, duration_sec) ==
    LET src == SelectSeq(fmts, YtAudioOnly)
        first5 == SubSeq(src, 1, IF Len(src) < 5 THEN Len(src) ELSE 5)
    IN  [i \in 1..Len(first5) |-> YtAudioEntry(first5[i])]
        \o [i \in 1..3 |-> YtMp3Preset(i, duration_sec)]

\* lines 122-248: the result for a non-playlist URL; info is the first
\* client's answer that had formats, fmts the formats of all clients combined
YtResult(info, fmts) ==
    [title |-> info.title, duration |-> info.duration, media_type |-> "",
     mp4 |-> YtVideoFormats(fmts, info.duration),
     mp3 |-> YtAudioFormats(fmts, info.duration),
     jpg |-> <<>>, images |-> <<>>, items |-> <<>>, count |-> 1,
     instant_available |-> FALSE,
     keys |-> {"title", "thumbnail", "duration", "uploader", "mp4", "mp3",
               "items", "count"}]

NoResult ==
    [title |-> "", duration |-> 0, media_type |-> "", mp4 |-> <<>>, mp3 |-> <<>>,
     jpg |-> <<>>, images |-> <<>>, items |-> <<>>, count |-> 0,
     instant_available |-> FALSE, keys |-> {}]

-----------------------------------------------------------------------------
(* utils/cache.py: the serialized payload, json.dumps / json.loads *)

JNull == [null |-> TRUE]
JStr(x) == [str |-> x]
JNum(n) == [num |-> n]
JBool(b) == [bool |-> b]
JArr(a) == [arr |-> a]
JObj(o) == [obj |-> o]

\* a stored text that is not valid JSON
JCorrupt == [corrupt |-> TRUE]

EncUrl(u) == IF u = 0 THEN JNull ELSE JStr(u)
DecUrl(j) == IF j = JNull THEN 0 ELSE j.str

EncFormat(f) ==
    JObj([format_id |-> JStr(f.format_id), ext |-> JStr(f.ext),
          height |-> JNum(f.height), fps |-> JNum(f.fps), url |-> EncUrl(f.url),
          has_direct_url |-> JBool(f.has_direct_url),
          is_progressive |-> JBool(f.is_progressive),
          vcodec |-> JStr(f.vcodec), acodec |-> JStr(f.acodec),
          tbr |-> JNum(f.tbr), filesize_mb |-> JNum(f.filesize_mb),
          estimated_size_mb |-> JNum(f.estimated_size_mb), size |-> JStr(f.size),
          type |-> JStr(f.type), source |-> JStr(f.source)])

DecFormat(j) ==
    [format_id |-> j.obj.format_id.str, ext |-> j.obj.ext.str,
     height |-> j.obj.height.num, fps |-> j.obj.fps.num, url |-> DecUrl(j.obj.url),
     has_direct_url |-> j.obj.has_direct_url.bool,
     is_progressive |-> j.obj.is_progressive.bool,
     vcodec |-> j.obj.vcodec.str, acodec |-> j.obj.acodec.str,
     tbr |-> j.obj.tbr.num, filesize_mb |-> j.obj.filesize_mb.num,
     estimated_size_mb |-> j.obj.estimated_size_mb.num, size |-> j.obj.size.str,
     type |-> j.obj.type.str, source |-> j.obj.source.str]

EncFormats(fs) == JArr([i \in 1..Len(fs) |-> EncFormat(fs[i])])
DecFormats(j) == [i \in 1..Len(j.arr) |-> DecFormat(j.arr[i])]

EncItem(it) ==
    JObj([id |-> JStr(it.id), title |-> JStr(it.title), duration |-> JNum(it.duration),
          formats |-> EncFormats(it.formats), media_type |-> JStr(it.media_type)])

DecItem(j) ==
    [id |-> j.obj.id.str, title |-> j.obj.title.str, duration |-> j.obj.duration.num,
     formats |-> DecFormats(j.obj.formats), media_type |-> j.obj.media_type.str]

ListKeys == {"mp4", "mp3", "jpg", "images"}

EncField(k, d) ==
    CASE k = "title" -> JStr(d.title)
      [] k = "duration" -> JNum(d.duration)
      [] k = "media_type" -> JStr(d.media_type)
      [] k \in ListKeys -> EncFormats(d[k])
      [] k = "items" -> JArr([i \in 1..Len(d.items) |-> EncItem(d.items[i])])
      [] k = "count" -> JNum(d.count)
      [] k = "instant_available" -> JBool(d.instant_available)
      [] OTHER -> JNull

\* json.dumps(data, separators=(',', ':')): an object of the dict's own keys
JsonDumps(d) == JObj([k \in d.keys |-> EncField(k, d)])

\* json.loads(row['data']) of a well-formed text: the dict back
JsonLoads(j) ==
    LET o == j.obj
        has(k) == k \in DOMAIN o
    IN  [title |-> IF has("title") THEN o.title.str ELSE "",
         duration |-> IF has("duration") THEN o.duration.num ELSE 0,
         media_type |-> IF has("media_type") THEN o.media_type.str ELSE "",
         mp4 |-> IF has("mp4") THEN DecFormats(o.mp4) ELSE <<>>,
         mp3 |-> IF has("mp3") THEN DecFormats(o.mp3) ELSE <<>>,
         jpg |-> IF has("jpg") THEN DecFormats(o.jpg) ELSE <<>>,
         images |-> IF has("images") THEN DecFormats(o.images) ELSE <<>>,
         items |-> IF has("items")
                   THEN [i \in 1..Len(o.items.arr) |-> DecItem(o.items.arr[i])]
                   ELSE <<>>,
         count |-> IF has("count") THEN o.count.num ELSE 0,
         instant_available |-> IF has("instant_available")
                               THEN o.instant_available.bool ELSE FALSE,
         keys |-> DOMAIN o]

-----------------------------------------------------------------------------
(* utils/cache.py: VideoCache *)

TtlHours == 24
SecondsPerHour == 3600
ttl_seconds == TtlHours * SecondsPerHour

\* the URLs the model resolves or caches (defined with the resolver below)
CacheUrls == {"https://youtu.be/abc", "https://www.youtube.com/watch?v=abc"}
CachePlatforms == {"youtube", "facebook"}

\* hashlib.sha256(url.encode()).hexdigest()[:16]: a digest of the URL alone,
\* distinct for the distinct URLs of the model
get_url_hash(url) == [sha256_16 |-> url]

NoRow ==
    [present |-> FALSE, url |-> "", platform |-> "", data |-> JNull,
     created_at |-> 0, accessed_at |-> 0, access_count |-> 0]

Miss == [hit |-> FALSE, value |-> NoResult]
Hit(v) == [hit |-> TRUE, value |-> v]

\* line 79: the expiry test of get
is_expired(t, created_at) == t - created_at > ttl_seconds

\* what the SELECT and the tests of get find: no row of the platform, a row
\* past the ttl, a row whose text json.loads rejects, or a row it returns
GetFound(st, t, url, platform) ==
    LET row == st[get_url_hash(url)]
    IN  IF ~row.present \/ row.platform # platform THEN "none"
        ELSE IF is_expired(t, row.created_at) THEN "expired"
        ELSE IF row.data = JCorrupt THEN "corrupt"
        ELSE "fresh"

\* Variant whose except branch returns None without the DELETE
CacheGetKeepCorrupt(st, t, url, platform) ==
    LET h == get_url_hash(url)
        found == GetFound(st, t, url, platform)
    IN  IF found = "none" THEN [store |-> st, ret |-> Miss]
        ELSE IF found = "expired"
        THEN [store |-> [st EXCEPT ![h] = NoRow], ret |-> Miss]
        ELSE IF found = "corrupt"
        THEN [store |-> [st EXCEPT ![h].accessed_at = t, ![h].access_count = @ + 1],
              ret |-> Miss]
        ELSE [store |-> [st EXCEPT ![h].accessed_at = t,
                                   ![h].access_count = @ + 1],
              ret |-> Hit(JsonLoads(st[h].data))]

\* Variant whose UPDATE also writes created_at, so that a read renews the ttl
CacheGetRenews(st, t, url, platform) ==
    LET h == get_url_hash(url)
        found == GetFound(st, t, url, platform)
    IN  IF found = "none" THEN [store |-> st, ret |-> Miss]
        ELSE IF found \in {"expired", "corrupt"}
        THEN [store |-> [st EXCEPT ![h] = NoRow], ret |-> Miss]
        ELSE [store |-> [st EXCEPT ![h].accessed_at = t, ![h].created_at = t,
                                   ![h].access_count = @ + 1],
              ret |-> Hit(JsonLoads(st[h].data))]

\* VideoCache.get, lines 62-99: what it leaves in the table, what it returns
CacheGet(st, t, url, platform) ==
    LET h == get_url_hash(url)
        row == st[h]
    IN  IF ~row.present \/ row.platform # platform
        THEN [store |-> st, ret |-> Miss]
        ELSE IF is_expired(t, row.created_at)
        THEN [store |-> [st EXCEPT ![h] = NoRow], ret |-> Miss]
        ELSE IF row.data = JCorrupt
        THEN [store |-> [st EXCEPT ![h] = NoRow], ret |-> Miss]
        ELSE [store |-> [st EXCEPT ![h].accessed_at = t,
                                   ![h].access_count = @ + 1],
              ret |-> Hit(JsonLoads(row.data))]

\* VideoCache.set, lines 101-113: INSERT OR REPLACE on primary key url_hash
CacheSet(st, t, url, data, platform) ==
    [st EXCEPT ![get_url_hash(url)] =
        [present |-> TRUE, url |-> url, platform |-> platform,
         data |-> JsonDumps(data), created_at |-> t, accessed_at |-> t,
         access_count |-> 1]]

\* VideoCache.clear_expired, lines 115-124
\* Variant whose DELETE also takes the rows created exactly at the cutoff
CacheClearExpiredAtCutoff(st, t) ==
    [h \in DOMAIN st |->
        IF st[h].present /\ st[h].created_at <= t - ttl_seconds THEN NoRow ELSE st[h]]

CacheClearExpired(st, t) ==
    [h \in DOMAIN st |->
        IF st[h].present /\ st[h].created_at < t - ttl_seconds THEN NoRow ELSE st[h]]

ClearExpiredCount(st, t) ==
    Cardinality({h \in DOMAIN st : st[h].present /\ st[h].created_at < t - ttl_seconds})

\* VideoCache.clear_all, lines 160-165
CacheClearAll(st) == [h \in DOMAIN st |-> NoRow]

-----------------------------------------------------------------------------
(* The sources: URL_PATTERNS and the url normalizer of each platform module,
   tabulated on the sample urls the resolver is called with *)

Sources ==
    {"youtube", "facebook", "instagram", "tiktok", "twitter", "pinterest",
     "linkedin", "reddit", "snapchat", "naver"}

\* a url of no source
OtherUrl == "https://example.com/video"

\* youtube.py has no normalizer; "list=" makes a url playlist-like
YoutubeUrls ==
    {"https://youtu.be/abc", "https://www.youtube.com/watch?v=abc",
     "https://www.youtube.com/playlist?list=PL1", OtherUrl}
youtube_URL_PATTERNS(url) ==
    url \in {"https://youtu.be/abc", "https://www.youtube.com/watch?v=abc",
             "https://www.youtube.com/playlist?list=PL1"}
is_playlist_like(url) == url = "https://www.youtube.com/playlist?list=PL1"

FacebookUrls ==
    {"https://www.facebook.com/watch/?v=1234567890",
     "https://www.facebook.com/user/videos/1234567890/?ref=share",
     "https://fb.me/abc", OtherUrl}
facebook_URL_PATTERNS(url) ==
    url \in {"https://www.facebook.com/watch/?v=1234567890",
             "https://www.facebook.com/user/videos/1234567890/?ref=share",
             "https://fb.me/abc"}
\* where the short link redirects to when the HEAD/GET resolution succeeds
FbMeTarget == "https://www.facebook.com/watch/?v=1234567890"
is_fbme(url) == url = "https://fb.me/abc"
\* _normalize_facebook_url for a url that is not a fb.me short link
normalize_facebook_url(url) ==
    IF url = "https://www.facebook.com/user/videos/1234567890/?ref=share"
    THEN "https://www.facebook.com/watch/?v=1234567890"
    ELSE url

InstagramUrls ==
    {"https://www.instagram.com/p/ABC/", "http://m.instagram.com/p/ABC/?igshid=1",
     OtherUrl}
instagram_URL_PATTERNS(url) ==
    url \in {"https://www.instagram.com/p/ABC/", "https://www.instagram.com/p/ABC"}
normalize_instagram_url(url) ==
    IF url \in {"https://www.instagram.com/p/ABC/",
                "http://m.instagram.com/p/ABC/?igshid=1"}
    THEN "https://www.instagram.com/p/ABC"
    ELSE url

TiktokUrls == {"https://www.tiktok.com/@user/video/123?utm=1", OtherUrl}
tiktok_URL_PATTERNS(url) ==
    url \in {"https://www.tiktok.com/@user/video/123?utm=1",
             "https://www.tiktok.com/@user/video/123"}
normalize_tiktok_url(url) ==
    IF url = "https://www.tiktok.com/@user/video/123?utm=1"
    THEN "https://www.tiktok.com/@user/video/123"
    ELSE url

TwitterUrls ==
    {"https://x.com/user/status/123?s=20&utm=1",
     "https://twitter.com/user/status/123?s=20", OtherUrl}
twitter_URL_PATTERNS(url) ==
    url \in {"https://x.com/user/status/123?s=20&utm=1",
             "https://twitter.com/user/status/123?s=20"}
normalize_twitter_url(url) ==
    IF url = "https://x.com/user/status/123?s=20&utm=1"
    THEN "https://twitter.com/user/status/123?s=20"
    ELSE url

PinterestUrls == {"https://www.pinterest.com/pin/123/", OtherUrl}
pinterest_URL_PATTERNS(url) ==
    url \in {"https://www.pinterest.com/pin/123/", "https://www.pinterest.com/pin/123"}
normalize_pinterest_url(url) ==
    IF url = "https://www.pinterest.com/pin/123/"
    THEN "https://www.pinterest.com/pin/123"
    ELSE url

LinkedinUrls ==
    {"https://www.linkedin.com/posts/user_activity-123?utm_source=share", OtherUrl}
linkedin_URL_PATTERNS(url) ==
    url \in {"https://www.linkedin.com/posts/user_activity-123?utm_source=share",
             "https://www.linkedin.com/posts/user_activity-123"}
normalize_linkedin_url(url) ==
    IF url = "https://www.linkedin.com/posts/user_activity-123?utm_source=share"
    THEN "https://www.linkedin.com/posts/user_activity-123"
    ELSE url

RedditUrls ==
    {"https://www.reddit.com/r/sub/comments/abc/title/?utm_source=share", OtherUrl}
reddit_URL_PATTERNS(url) ==
    url \in {"https://www.reddit.com/r/sub/comments/abc/title/?utm_source=share",
             "https://www.reddit.com/r/sub/comments/abc/title"}
normalize_reddit_url(url) ==
    IF url = "https://www.reddit.com/r/sub/comments/abc/title/?utm_source=share"
    THEN "https://www.reddit.com/r/sub/comments/abc/title"
    ELSE url

SnapchatUrls == {"https://www.snapchat.com/spotlight/abc/", OtherUrl}
snapchat_URL_PATTERNS(url) ==
    url \in {"https://www.snapchat.com/spotlight/abc/",
             "https://www.snapchat.com/spotlight/abc"}
normalize_snapchat_url(url) ==
    IF url = "https://www.snapchat.com/spotlight/abc/"
    THEN "https://www.snapchat.com/spotlight/abc"
    ELSE url

\* naver.py passes the url on as it is
NaverUrls == {"https://tv.naver.com/v/123", OtherUrl}
naver_URL_PATTERNS(url) == url = "https://tv.naver.com/v/123"

-----------------------------------------------------------------------------
(* The network as the analyze functions see it: answers of the Extractor
   (yt-dlp extract_info) and of the scrape / OpenGraph / redirect requests *)

ProgShape ==
    [height |-> 720, fps |-> 30, ext |-> "mp4", vcodec |-> "avc1", acodec |-> "mp4a",
     hasurl |-> TRUE, tbr |-> 800, protocol |-> "https", format_note |-> "",
     filesize |-> 0]

DashShape ==
    [height |-> 360, fps |-> 30, ext |-> "mp4", vcodec |-> "avc1", acodec |-> "none",
     hasurl |-> TRUE, tbr |-> 500, protocol |-> "https", format_note |-> "",
     filesize |-> 0]

\* a video with one progressive mp4 and one audio-only stream
ProgInfo ==
    SingleInfo(MkItem("vid-prog", << MkRaw(ProgShape, 1), MkRaw(AudioShape, 2) >>,
                      60, {}, <<>>))
\* a video with one video-only mp4 and one audio-only stream
DashInfo ==
    SingleInfo(MkItem("vid-dash", << MkRaw(DashShape, 3), MkRaw(AudioShape, 4) >>,
                      60, {}, <<>>))
\* a photo post: no formats, a top-level url
ImageInfo == SingleInfo(MkItem("pic", <<>>, 0, {"url"}, << 5 >>))
\* an entry with neither formats nor any image field
BareInfo == SingleInfo(MkItem("bare", <<>>, 0, {}, <<>>))
\* a playlist whose entries list is empty
EmptyPlaylist == MkInfo("playlist", MkItem("list", <<>>, 0, {}, <<>>), <<>>)
\* a playlist of two entries
TwoPlaylist ==
    MkInfo("playlist", MkItem("list", <<>>, 0, {}, <<>>),
           << MkItem("e1", <<>>, 60, {}, <<>>), MkItem("e2", <<>>, 0, {}, <<>>) >>)

\* a photo post whose images are its thumbnails (ids "0", "1")
ThumbInfo == SingleInfo(MkItem("thumbs", <<>>, 0, {"thumbnails"}, << 6, 7 >>))
\* a carousel: a playlist of two photo entries, each with a top-level url
CarouselInfo ==
    MkInfo("playlist", MkItem("list", <<>>, 0, {}, <<>>),
           << MkItem("p1", <<>>, 0, {"url"}, << 8 >>),
              MkItem("p2", <<>>, 0, {"url"}, << 9 >>) >>)

NoInfo == MkInfo("none", MkItem("", <<>>, 0, {}, <<>>), <<>>)

\* one extract_info call: it returns an info, returns nothing, or raises with
\* a message that may mention "private" or "unavailable"
Answer(kind, info, msg) == [kind |-> kind, info |-> info, msg |-> msg]
Returned(info) == Answer("ok", info, "")
ReturnedNone == Answer("empty", NoInfo, "")
Raised(msg) == Answer("raise", NoInfo, msg)
NotCalled == Answer("skip", NoInfo, "")

InfoSamples == {ProgInfo, DashInfo, ImageInfo, CarouselInfo, BareInfo, EmptyPlaylist}
Answers == {Returned(i) : i \in InfoSamples} \cup {ReturnedNone, Raised("error")}

\* the two Extractor calls of analyze_platform; the second is made only when
\* the first raised
PlatformEnvs ==
    {[primary |-> a, flat |-> NotCalled] : a \in Answers \ {Raised("error")}}
        \cup {[primary |-> Raised("error"), flat |-> a] :
                 a \in Answers \cup {Raised("flat_error")}}

\* names of the network steps a call went through
ExtractorStages ==
    {"PRIMARY_EXTRACT", "FLAT_EXTRACT", "HELPER_EXTRACT", "AUGMENT_EXTRACT",
     "PLAYLIST_FLAT", "PLAYLIST_FLAT_RETRY", "CLIENT_ios", "CLIENT_web",
     "CLIENT_android"}
ScrapeStages == {"DIRECT_SCRAPE", "OG_HTTPX", "OG_REQUESTS"}
RedirectStages == {"REDIRECT_HEAD", "REDIRECT_GET"}

\* how an analyze call ended
Ok(result, stages, via) ==
    [outcome |-> "ok", error |-> "", msg |-> "", stages |-> stages,
     result |-> result, via |-> via]
Err(class, msg, stages) ==
    [outcome |-> "error", error |-> class, msg |-> msg, stages |-> stages,
     result |-> NoResult, via |-> ""]

-----------------------------------------------------------------------------
(* base.py: analyze_platform, from validation to the result *)

\* matches: any(p.search(url) for p in url_patterns), for the caller's patterns
analyze_platform(matches, platform_name, env) ==
    IF ~matches
    THEN Err("ValueError", "invalid_url", <<>>)
    ELSE
      LET primary_raised == env.primary.kind = "raise"
          stages == IF primary_raised
                    THEN << "PRIMARY_EXTRACT", "FLAT_EXTRACT" >>
                    ELSE << "PRIMARY_EXTRACT" >>
          ans == IF primary_raised THEN env.flat ELSE env.primary
      IN  IF ans.kind = "raise"
          THEN Err("DownloadError", env.primary.msg, stages)   \* raise e
          ELSE IF ans.kind = "empty"
          THEN Err("ConnectionError", "no_info", stages)
          ELSE IF ans.info.type = "playlist" /\ ans.info.entries = <<>>
          THEN Err("ValueError", "no_media", stages)
          ELSE Ok(BaseResult(ans.info, platform_name), stages, "extract")
-----------------------------------------------------------------------------
(* youtube.py: analyze, and the cache_video_analysis wrapper around it *)

clients == << "ios", "web", "android" >>

\* what each player client reports when it has formats
ClientInfo(c) ==
    IF c = "ios"
    THEN MkItem("vid-ios", << MkRaw(ProgShape, 1), MkRaw(AudioShape, 2) >>, 60, {}, <<>>)
    ELSE IF c = "web"
    THEN MkItem("vid-web", << MkRaw(DashShape, 3), MkRaw(AudioShape, 4) >>, 30, {}, <<>>)
    ELSE MkItem("vid-android", << MkRaw(ProgShape, 5) >>, 0, {}, <<>>)

\* an info without formats
ClientBare(c) == MkItem("vid-bare", <<>>, 0, {}, <<>>)

\* per client: formats, an info without formats, None, or an exception
ClientAnswers(c) ==
    {Returned(SingleInfo(ClientInfo(c))), Returned(SingleInfo(ClientBare(c))),
     ReturnedNone, Raised("error"), Raised("private"), Raised("unavailable")}

\* the except handler of analyze, lines 250-255
YtExcept(msg, stages) ==
    IF msg = "private" THEN Err("ValueError", "private", stages)
    ELSE IF msg = "unavailable" THEN Err("ValueError", "unavailable", stages)
    ELSE Err("ConnectionError", "analyze_failed", stages)

\* lines 60-88: the result for a playlist-like url
YtPlaylistResult(info) ==
    [title |-> info.item.title, duration |-> 0, media_type |-> "",
     mp4 |-> <<>>, mp3 |-> <<>>, jpg |-> <<>>, images |-> <<>>,
     items |-> [i \in 1..Len(info.entries) |->
                  [id |-> info.entries[i].id, title |-> info.entries[i].title,
                   duration |-> info.entries[i].duration, formats |-> <<>>,
                   media_type |-> ""]],
     count |-> Len(info.entries),
     instant_available |-> FALSE,
     keys |-> {"title", "thumbnail", "duration", "uploader", "mp4", "mp3",
               "items", "count"}]

\* lines 35-88
YtPlaylist(env) ==
    LET first_raised == env.plist1.kind = "raise"
        stages == IF first_raised
                  THEN << "PLAYLIST_FLAT", "PLAYLIST_FLAT_RETRY" >>
                  ELSE << "PLAYLIST_FLAT" >>
        ans == IF first_raised THEN env.plist2 ELSE env.plist1
    IN  IF ans.kind = "raise" THEN YtExcept(ans.msg, stages)
        ELSE IF ans.kind = "empty" THEN YtExcept("error", stages)
        ELSE Ok(YtPlaylistResult(ans.info), stages, "extract")

RECURSIVE YtClientLoop(_, _, _)
\* lines 96-114: acc = [combined_formats, info, last_error]
YtClientLoop(acc, env, i) ==
    IF i > Len(clients) THEN acc
    ELSE
      LET a == env.clients[i]
          fmts == IF a.kind = "ok" THEN a.info.item.formats ELSE <<>>
          step ==
            IF a.kind = "ok"
            THEN IF fmts # <<>>
                 THEN [combined |-> acc.combined \o fmts,
                       info |-> IF acc.info = NoInfo THEN a.info ELSE acc.info,
                       last_error |-> acc.last_error]
                 ELSE acc
            \* None has no .get: the AttributeError is caught like any other
            ELSE [acc EXCEPT !.last_error = IF a.kind = "empty" THEN "error" ELSE a.msg]
      IN  YtClientLoop(step, env, i + 1)

ClientStages == [i \in 1..Len(clients) |-> "CLIENT_" \o clients[i]]

\* analyze without its decorator, lines 19-255
youtube_analyze(url, env) ==
    IF ~youtube_URL_PATTERNS(url)
    THEN Err("ValueError", "invalid_url", <<>>)
    ELSE IF is_playlist_like(url)
    THEN YtPlaylist(env)
    ELSE
      LET r == YtClientLoop([combined |-> <<>>, info |-> NoInfo, last_error |-> ""],
                            env, 1)
      IN  IF r.combined = <<>>
          THEN YtExcept(r.last_error, ClientStages)
          ELSE Ok(YtResult(r.info.item, r.combined), ClientStages, "extract")

\* cache_video_analysis("youtube"), lines 178-197, around youtube_analyze
cached_youtube_analyze(st, t, url, env) ==
    LET g == CacheGet(st, t, url, "youtube")
    IN  IF g.ret.hit /\ g.ret.value.keys # {}
        THEN [store |-> g.store, r |-> Ok(g.ret.value, <<>>, "cache")]
        ELSE
          LET r == youtube_analyze(url, env)
          IN  IF r.outcome = "ok"
              THEN [store |-> CacheSet(g.store, t, url, r.result, "youtube"), r |-> r]
              ELSE [store |-> g.store, r |-> r]

-----------------------------------------------------------------------------
(* linkedin.py / reddit.py: analyze with the OpenGraph fallback *)

\* the urls the page advertises in og:video / og:image
OgUrls == [video |-> 93, image |-> 94]

\* the direct-mp4 entry both fallbacks build
DirectFormat(url, source) ==
    [format_id |-> "direct-mp4", ext |-> "MP4", height |-> 0, fps |-> 0, url |-> url,
     has_direct_url |-> TRUE, is_progressive |-> TRUE, vcodec |-> "", acodec |-> "",
     tbr |-> 0, filesize_mb |-> 0, estimated_size_mb |-> 0,
     size |-> UnknownSize, type |-> "video", source |-> source]

SingleItemResult(id, title, fmt, media_type, instant) ==
    LET item == [id |-> id, title |-> title, duration |-> 0, formats |-> << fmt >>,
                 media_type |-> media_type]
    IN  [title |-> title, duration |-> 0, media_type |-> media_type,
         mp4 |-> IF fmt.type = "video" THEN << fmt >> ELSE <<>>,
         mp3 |-> <<>>,
         jpg |-> IF fmt.type = "image" THEN << fmt >> ELSE <<>>,
         images |-> IF fmt.type = "image" THEN << fmt >> ELSE <<>>,
         items |-> << item >>, count |-> 1, instant_available |-> instant,
         keys |-> {"title", "thumbnail", "duration", "uploader", "media_type", "mp4",
                   "mp3", "jpg", "images", "items", "count", "instant_available"}]

\* the item id taken from the normalized url, else the per-kind default
og_item_id(platform, normalized, kind) ==
    IF platform = "reddit" /\ normalized = "https://www.reddit.com/r/sub/comments/abc/title"
    THEN "abc"
    ELSE platform \o "-" \o kind

OgTitle(platform) == IF platform = "linkedin" THEN "LinkedIn Media" ELSE "Reddit Media"

\* the page fetch (httpx, then requests) and what the page's meta tags hold
OgEnvs ==
    [fetch : {"httpx", "requests", "failed"}, page : {"video", "image", "both", "none"}]

\* the except branch, linkedin.py lines 66-191 / reddit.py lines 55-175
opengraph_fallback(platform, normalized, og, before) ==
    LET stages == before \o (IF og.fetch = "httpx" THEN << "OG_HTTPX" >>
                             ELSE << "OG_HTTPX", "OG_REQUESTS" >>)
    IN  IF og.fetch = "failed"
        THEN Err("ConnectionError", "fetch_failed", stages)
        ELSE IF og.page \in {"video", "both"}
        THEN Ok(SingleItemResult(og_item_id(platform, normalized, "media"),
                                 OgTitle(platform),
                                 DirectFormat(OgUrls.video, "opengraph"), "video", TRUE),
                stages, "opengraph")
        ELSE IF og.page = "image"
        THEN Ok(SingleItemResult(og_item_id(platform, normalized, "image"),
                                 OgTitle(platform),
                                 ImageFormat("img0", OgUrls.image), "image", FALSE),
                stages, "opengraph")
        ELSE Err("ConnectionError", "no_media_opengraph", stages)

linkedin_analyze(url, env) ==
    LET normalized == normalize_linkedin_url(url)
        p == analyze_platform(linkedin_URL_PATTERNS(normalized), "linkedin", env.platform)
    IN  IF p.outcome = "ok" THEN p
        ELSE opengraph_fallback("linkedin", normalized, env.og, p.stages)

reddit_analyze(url, env) ==
    LET normalized == normalize_reddit_url(url)
        p == analyze_platform(reddit_URL_PATTERNS(normalized), "reddit", env.platform)
    IN  IF p.outcome = "ok" THEN p
        ELSE opengraph_fallback("reddit", normalized, env.og, p.stages)

-----------------------------------------------------------------------------
(* facebook_helper.py: get_facebook_mp4; facebook.py: analyze *)

\* the urls the helper finds through the Extractor / through the page scrape
HelperUrls == [extract |-> 91, scrape |-> 92]

\* extract: FACEBOOK_SCRAPE_ONLY set, a progressive url found, none found, or
\* extract_info raised; scrape: _scrape_facebook_mp4 found a url or nothing
HelperEnvs ==
    {[extract |-> "url", scrape |-> "skip"]}
        \cup [extract : {"scrape_only", "nourl", "raise"}, scrape : {"url", "none"}]
HelperNotCalled == [extract |-> "skip", scrape |-> "skip"]

\* url = 0: the helper raised ValueError('No direct MP4 URL available ...')
get_facebook_mp4(h) ==
    [url |-> IF h.extract = "url" THEN HelperUrls.extract
             ELSE IF h.scrape = "url" THEN HelperUrls.scrape
             ELSE 0,
     stages |-> (IF h.extract = "scrape_only" THEN <<>> ELSE << "HELPER_EXTRACT" >>)
                   \o (IF h.extract = "url" THEN <<>> ELSE << "DIRECT_SCRAPE" >>)]

_FBME_CACHE_TTL == 30
NoFbme == [resolved |-> "", ts |-> 0]
RedirectOutcomes == {"head", "get", "failed"}

\* _normalize_facebook_url, lines 29-134; cache is _fbme_cache[url]
normalize_with_redirect(url, cache, t, redirect) ==
    IF ~is_fbme(url)
    THEN [url |-> normalize_facebook_url(url), stages |-> <<>>, cache |-> cache]
    ELSE IF cache.resolved # "" /\ t - cache.ts < _FBME_CACHE_TTL
    THEN [url |-> cache.resolved, stages |-> <<>>, cache |-> cache]
    ELSE IF redirect = "head"
    THEN [url |-> FbMeTarget, stages |-> << "REDIRECT_HEAD" >>,
          cache |-> [resolved |-> FbMeTarget, ts |-> t]]
    ELSE IF redirect = "get"
    THEN [url |-> FbMeTarget, stages |-> << "REDIRECT_HEAD", "REDIRECT_GET" >>,
          cache |-> [resolved |-> FbMeTarget, ts |-> t]]
    ELSE [url |-> url, stages |-> << "REDIRECT_HEAD", "REDIRECT_GET" >>, cache |-> cache]

\* the numeric id in the normalized url, else 'facebook-video'
facebook_video_id(normalized) ==
    IF normalized = "https://www.facebook.com/watch/?v=1234567890"
    THEN "1234567890" ELSE "facebook-video"

\* Variant that leaves instant_available false
FbDirectResultNotInstant(normalized, mp4_url) ==
    SingleItemResult(facebook_video_id(normalized), "Facebook Video",
                     DirectFormat(mp4_url, "direct"), "video", FALSE)

FbDirectResult(normalized, mp4_url) ==
    SingleItemResult(facebook_video_id(normalized), "Facebook Video",
                     DirectFormat(mp4_url, "direct"), "video", TRUE)

\* lines 217-220: f['source'] = 'yt-dlp' on the video entries, which the first
\* item's formats list shares with result['mp4']
TagSource(f) == IF f.type = "video" /\ f.source = "" THEN [f EXCEPT !.source = "yt-dlp"] ELSE f
TagAll(fmts) == [i \in 1..Len(fmts) |-> TagSource(fmts[i])]
TagYtDlp(result) ==
    [result EXCEPT !.mp4 = TagAll(result.mp4),
                   !.items = [i \in 1..Len(result.items) |->
                                IF i = 1
                                THEN [result.items[i] EXCEPT
                                        !.formats = TagAll(result.items[i].formats)]
                                ELSE result.items[i]]]

\* lines 254-285: one entry per mp4 descriptor of the probe, no dedup
AugmentEligible(f) == Lower(f.ext) = "mp4" /\ (f.height > 0 \/ f.width > 0)
AugmentEntry(f) ==
    [format_id |-> f.format_id, ext |-> "MP4", height |-> f.height, fps |-> f.fps,
     url |-> f.url, has_direct_url |-> f.url # 0,
     is_progressive |-> (f.vcodec # "none" /\ f.acodec # "none"),
     vcodec |-> f.vcodec, acodec |-> f.acodec, tbr |-> f.tbr,
     filesize_mb |-> IF f.filesize # 0 THEN RoundTenths(f.filesize, BytesPerMb) ELSE 0,
     estimated_size_mb |-> 0,
     size |-> IF f.filesize # 0 THEN SizeText("", RoundTenths(f.filesize, BytesPerMb))
              ELSE UnknownSize,
     type |-> "video", source |-> "yt-dlp"]

\* lines 226-315: the result once the helper has returned mp4_url
FbAugmented(normalized, result, mp4_url, ans) ==
    LET info == IF ans.kind # "ok" THEN NoInfo.item
                ELSE IF ans.info.type = "playlist" /\ ans.info.entries # <<>>
                THEN ans.info.entries[1]
                ELSE ans.info.item
        probe == SelectSeq(info.formats, AugmentEligible)
        mp4_formats == [i \in 1..Len(probe) |-> AugmentEntry(probe[i])]
        formats == mp4_formats \o << DirectFormat(mp4_url, "direct") >>
        title == IF info.title # "" THEN info.title ELSE "Facebook Video"
        item == [id |-> facebook_video_id(normalized), title |-> title, duration |-> 0,
                 formats |-> formats, media_type |-> "video"]
    IN  [title |-> title, duration |-> 0, media_type |-> "video",
         mp4 |-> OfType(formats, "video"), mp3 |-> <<>>,
         jpg |-> result.jpg, images |-> result.images,
         items |-> << item >>, count |-> 1, instant_available |-> TRUE,
         keys |-> {"title", "thumbnail", "duration", "uploader", "media_type", "mp4",
                   "mp3", "jpg", "images", "items", "count", "instant_available"}]

HasProgressive(fmts) == \E i \in 1..Len(fmts) : fmts[i].is_progressive

\* forced: FACEBOOK_FORCE_FALLBACK is set
FacebookEnvs ==
    [forced : {FALSE}, helper1 : {HelperNotCalled}, platform : PlatformEnvs,
     helper2 : HelperEnvs, augment : Answers]
        \cup [forced : {TRUE}, helper1 : HelperEnvs, platform : PlatformEnvs,
              helper2 : HelperEnvs, augment : Answers]

\* analyze after normalization, lines 173-364
facebook_analyze(normalized, env) ==
    LET h1 == get_facebook_mp4(env.helper1)
        s1 == IF env.forced THEN h1.stages ELSE <<>>
        p == analyze_platform(facebook_URL_PATTERNS(normalized), "facebook", env.platform)
        h2 == get_facebook_mp4(env.helper2)
        tagged == TagYtDlp(p.result)
    IN  IF env.forced /\ h1.url # 0
        THEN Ok(FbDirectResult(normalized, h1.url), s1, "forced")
        ELSE IF p.outcome = "ok"
        THEN IF HasProgressive(tagged.mp4)
             THEN Ok(tagged, s1 \o p.stages, "extract")
             ELSE IF h2.url # 0
             THEN Ok(FbAugmented(normalized, tagged, h2.url, env.augment),
                     s1 \o p.stages \o h2.stages \o << "AUGMENT_EXTRACT" >>, "augment")
             ELSE Ok(tagged, s1 \o p.stages \o h2.stages, "extract")
        ELSE IF h2.url # 0
        THEN Ok(FbDirectResult(normalized, h2.url), s1 \o p.stages \o h2.stages, "direct")
        ELSE Err("ValueError", "no_direct_mp4", s1 \o p.stages \o h2.stages)

-----------------------------------------------------------------------------
(* The sources that hand the normalized url straight to analyze_platform *)

instagram_analyze(url, env) ==
    LET p == analyze_platform(instagram_URL_PATTERNS(normalize_instagram_url(url)),
                              "instagram", env)
    IN  IF p.outcome = "ok"
        THEN [p EXCEPT !.result.keys = @ \cup {"thumbnail_url"}]
        ELSE p

tiktok_analyze(url, env) ==
    analyze_platform(tiktok_URL_PATTERNS(normalize_tiktok_url(url)), "tiktok", env)

twitter_analyze(url, env) ==
    analyze_platform(twitter_URL_PATTERNS(normalize_twitter_url(url)), "twitter", env)

pinterest_analyze(url, env) ==
    analyze_platform(pinterest_URL_PATTERNS(normalize_pinterest_url(url)), "pinterest", env)

snapchat_analyze(url, env) ==
    analyze_platform(snapchat_URL_PATTERNS(normalize_snapchat_url(url)), "snapchat", env)

naver_analyze(url, env) == analyze_platform(naver_URL_PATTERNS(url), "naver", env)

-----------------------------------------------------------------------------
(* Strings as the planners take them apart: str methods, int(), str() and
   the regular expression of the mp3 presets *)

DigitChars == "0123456789"
UpperChars == "ABCDEFGHIJKLMNOPQRSTUVWXYZ"
LowerChars == "abcdefghijklmnopqrstuvwxyz"

CharAt(s, i) == SubSeq(s, i, i)

IsDigit(c) == \E i \in 1..Len(DigitChars) : CharAt(DigitChars, i) = c
DigitVal(c) == (CHOOSE i \in 1..Len(DigitChars) : CharAt(DigitChars, i) = c) - 1
AllDigits(s) == \A i \in 1..Len(s) : IsDigit(CharAt(s, i))

RECURSIVE ParseInt(_)
\* int(s) for a string of decimal digits
ParseInt(s) ==
    IF s = "" THEN 0
    ELSE 10 * ParseInt(SubSeq(s, 1, Len(s) - 1)) + DigitVal(CharAt(s, Len(s)))

RECURSIVE IntStr(_)
\* str(n) for n >= 0
IntStr(n) ==
    IF n < 10 THEN CharAt(DigitChars, n + 1)
    ELSE IntStr(n \div 10) \o CharAt(DigitChars, (n % 10) + 1)

LowerChar(c) ==
    IF \E i \in 1..Len(UpperChars) : CharAt(UpperChars, i) = c
    THEN CharAt(LowerChars, CHOOSE i \in 1..Len(UpperChars) : CharAt(UpperChars, i) = c)
    ELSE c

RECURSIVE str_lower(_)
\* s.lower()
str_lower(s) == IF s = "" THEN "" ELSE LowerChar(CharAt(s, 1)) \o str_lower(SubSeq(s, 2, Len(s)))

\* s.startswith(p)
StartsWith(s, p) == Len(s) >= Len(p) /\ SubSeq(s, 1, Len(p)) = p

\* c in s, for a one-character c
Contains(s, c) == \E i \in 1..Len(s) : CharAt(s, i) = c

\* re.match(r'(?i)^mp3[_-]?(\d{2,3})$', s): the captured digits, "" when
\* the expression does not match
Mp3Group(s) ==
    LET l == str_lower(s)
        rest == SubSeq(l, 4, Len(l))
        digits == IF rest # "" /\ CharAt(rest, 1) \in {"_", "-"}
                  THEN SubSeq(rest, 2, Len(rest)) ELSE rest
    IN  IF StartsWith(l, "mp3") /\ Len(digits) \in {2, 3} /\ AllDigits(digits)
        THEN digits ELSE ""

\* max(32, min(320, bitrate))
ClampBitrate(bitrate) ==
    LET low == IF bitrate < 320 THEN bitrate ELSE 320
    IN  IF low > 32 THEN low ELSE 32

\* format_id.split('_')[1] of an id that starts with 'mp3_'
SplitSecond(s) ==
    LET rest == SubSeq(s, 5, Len(s))
        stops == {i \in 1..Len(rest) : CharAt(rest, i) = "_"}
        end == IF stops = {} THEN Len(rest)
               ELSE (CHOOSE i \in stops : \A j \in stops : i <= j) - 1
    IN  SubSeq(rest, 1, end)

-----------------------------------------------------------------------------
(* The planners: base.py prepare_download_options, youtube.py
   prepare_download and the prepare_download of every other source *)

\* Variant whose direct result also carries a format selector
PlanDirectWithFormat(url, stages) ==
    [outcome |-> "ok", error |-> "", msg |-> "", keys |-> {"direct_url", "format"},
     direct_url |-> url, format |-> "best", codec |-> "", quality |-> "", merge |-> "",
     warned |-> FALSE, stages |-> stages]

\* the dict a planner returns, by the keys it carries; a raise has no keys
PlanDirect(url, stages) ==
    [outcome |-> "ok", error |-> "", msg |-> "", keys |-> {"direct_url"},
     direct_url |-> url, format |-> "", codec |-> "", quality |-> "", merge |-> "",
     warned |-> FALSE, stages |-> stages]

\* ydl_opts: 'format' always; 'postprocessors' when codec is set;
\* 'merge_output_format' when merge is set
PlanOpts(format, codec, quality, merge, warned, stages) ==
    [outcome |-> "ok", error |-> "", msg |-> "",
     keys |-> {"format", "outtmpl"}
                \cup (IF codec # "" THEN {"postprocessors"} ELSE {})
                \cup (IF merge # "" THEN {"merge_output_format"} ELSE {}),
     direct_url |-> 0, format |-> format, codec |-> codec, quality |-> quality,
     merge |-> merge, warned |-> warned, stages |-> stages]

PlanErr(class, msg, stages) ==
    [outcome |-> "error", error |-> class, msg |-> msg, keys |-> {},
     direct_url |-> 0, format |-> "", codec |-> "", quality |-> "", merge |-> "",
     warned |-> FALSE, stages |-> stages]

\* first format of the list whose format_id is fid; 0 when there is none
FirstMatch(fmts, fid) ==
    LET hits == {i \in 1..Len(fmts) : fmts[i].format_id = fid}
    IN  IF hits = {} THEN 0 ELSE CHOOSE i \in hits : \A j \in hits : i <= j

RECURSIVE ImageUrlLoop(_, _, _)
\* base.py lines 612-619: img_url after the loops over items and formats
ImageUrlLoop(items, fid, img_url) ==
    IF items = <<>> THEN img_url
    ELSE LET k == FirstMatch(Head(items).formats, fid)
             u == IF k = 0 THEN img_url ELSE Head(items).formats[k].url
         IN  IF u # 0 THEN u ELSE ImageUrlLoop(Tail(items), fid, u)

\* base.py lines 631-639: the url of an instant audio entry, 0 when none
InstantAudioUrl(analyzed, fid) ==
    LET top == {i \in 1..Len(analyzed.mp3) :
                  /\ analyzed.mp3[i].format_id = fid
                  /\ analyzed.mp3[i].has_direct_url
                  /\ analyzed.mp3[i].url # 0}
        all == Flatten([i \in 1..Len(analyzed.items) |-> analyzed.items[i].formats])
        per == {i \in 1..Len(all) :
                  all[i].format_id = fid /\ all[i].type = "audio" /\ all[i].url # 0}
    IN  IF top # {} THEN analyzed.mp3[CHOOSE i \in top : \A j \in top : i <= j].url
        ELSE IF per # {} THEN all[CHOOSE i \in per : \A j \in per : i <= j].url
        ELSE 0

\* base.py lines 704-719: the url of the chosen progressive entry, 0 when none
ProgressiveUrl(format_id, second) ==
    IF format_id = "" \/ format_id = "best" \/ Contains(format_id, "+")
       \/ second.outcome # "ok"
    THEN 0
    ELSE LET k == FirstMatch(second.result.mp4, format_id)
         IN  IF k # 0 /\ second.result.mp4[k].is_progressive
                /\ second.result.mp4[k].has_direct_url
             THEN second.result.mp4[k].url
             ELSE 0

\* base.py lines 641-691: the named audio presets
IsAudioPreset(fid) ==
    \/ fid \in {"audio", "bestaudio", "audio_best", "mp3", "audio_mp3", "m4a", "audio_m4a"}
    \/ Mp3Group(fid) # ""

AudioPreset(fid, stages) ==
    IF fid \in {"audio", "bestaudio", "audio_best"}
    THEN PlanOpts("bestaudio/best", "", "", "", FALSE, stages)
    ELSE IF fid \in {"mp3", "audio_mp3"} \/ Mp3Group(fid) # ""
    THEN LET bitrate == IF Mp3Group(fid) # "" THEN ParseInt(Mp3Group(fid)) ELSE 192
             clamped == ClampBitrate(bitrate)
         IN  PlanOpts("bestaudio/best", "mp3", IntStr(clamped), "",
                      clamped # bitrate, stages)
    ELSE PlanOpts("bestaudio[ext=m4a]/bestaudio/best", "m4a", "192", "", FALSE, stages)

\* lines 694-702 with the helper never returning a url
FacebookInstantNever(platform_name, h) == FALSE

\* lines 694-702: whether the Facebook step returns the helper's url
FacebookInstant(platform_name, h) == platform_name = "facebook" /\ h.url # 0

\* base.py lines 607-731: the plan, given what the two re-analyses (first,
\* second) and the Facebook helper (h) answer
PlanFromAnalyses(format_id, platform_name, first, second, h) ==
    LET fid == str_lower(format_id)
        lookup == format_id # "" /\ ~Contains(format_id, "+")
        s1 == IF lookup THEN first.stages ELSE <<>>
        s2 == s1 \o (IF platform_name = "facebook" THEN h.stages ELSE <<>>)
        retry == format_id # "" /\ format_id # "best" /\ ~Contains(format_id, "+")
        s3 == s2 \o (IF retry THEN second.stages ELSE <<>>)
    IN  IF StartsWith(format_id, "img")
        THEN IF first.outcome # "ok"
             THEN PlanErr(first.error, first.msg, first.stages)
             ELSE IF ImageUrlLoop(first.result.items, format_id, 0) = 0
             THEN PlanErr("ValueError", "image_not_found", first.stages)
             ELSE PlanDirect(ImageUrlLoop(first.result.items, format_id, 0), first.stages)
        ELSE IF lookup /\ first.outcome # "ok"
        THEN PlanErr(first.error, first.msg, s1)
        ELSE IF lookup /\ InstantAudioUrl(first.result, format_id) # 0
        THEN PlanDirect(InstantAudioUrl(first.result, format_id), s1)
        ELSE IF IsAudioPreset(fid)
        THEN AudioPreset(fid, s1)
        ELSE IF FacebookInstant(platform_name, h)
        THEN PlanDirect(h.url, s2)
        ELSE IF ProgressiveUrl(format_id, second) # 0
        THEN PlanDirect(ProgressiveUrl(format_id, second), s3)
        ELSE PlanOpts(IF format_id # "" /\ ~Contains(format_id, "+")
                      THEN format_id \o "+bestaudio/" \o format_id
                      ELSE format_id,
                      "", "", "mp4", FALSE, s3)

\* base.py lines 595-731 with info=None, as every source calls it. env.first
\* and env.second answer the two re-analyses, env.helper the Facebook helper.
prepare_download_options(format_id, platform_name, env) ==
    PlanFromAnalyses(format_id, platform_name,
                     analyze_platform(TRUE, platform_name, env.first),
                     analyze_platform(TRUE, platform_name, env.second),
                     get_facebook_mp4(env.helper))

\* youtube.py line 266-275
YtBestSelector ==
    "best[ext=mp4][vcodec!=none][acodec!=none]/best[vcodec!=none][acodec!=none]/"
        \o "bestvideo[ext=mp4]+bestaudio[ext=m4a]/bestvideo[ext=mp4]+bestaudio/"
        \o "bestvideo+bestaudio/best"

\* youtube.py lines 283-307: the selector for a plain format id
YtSelector(format_id, ans) ==
    LET fmts == ans.info.item.formats
        k == FirstMatch(fmts, format_id)
        has_video == k # 0 /\ fmts[k].vcodec # "" /\ fmts[k].vcodec # "none"
        has_audio == k # 0 /\ fmts[k].acodec # "" /\ fmts[k].acodec # "none"
    IN  IF ans.kind = "ok" /\ has_video /\ ~has_audio
        THEN format_id \o "+bestaudio[ext=m4a]/" \o format_id \o "+bestaudio/" \o format_id
        ELSE format_id

\* youtube.py lines 342-346: int(format_id.split('_')[1]), 192 when int() raises
YtMp3Bitrate(format_id) ==
    IF SplitSecond(format_id) # "" /\ AllDigits(SplitSecond(format_id))
    THEN ParseInt(SplitSecond(format_id)) ELSE 192

\* youtube.py lines 257-360; ans answers the extract_info of line 286
youtube_prepare_download(format_id, ans) ==
    LET plain == format_id # "best" /\ ~StartsWith(format_id, "mp3_")
                    /\ ~Contains(format_id, "+")
        stages == IF plain THEN << "PRIMARY_EXTRACT" >> ELSE <<>>
    IN  IF StartsWith(format_id, "mp3_")
        THEN PlanOpts("bestaudio", "mp3", IntStr(YtMp3Bitrate(format_id)), "",
                      FALSE, stages)
        ELSE PlanOpts(IF format_id = "best" THEN YtBestSelector
                      ELSE IF plain THEN YtSelector(format_id, ans)
                      ELSE format_id,
                      "", "", "mkv", FALSE, stages)

\* facebook.py, linkedin.py, reddit.py, tiktok.py, twitter.py, pinterest.py,
\* snapchat.py prepare_download: validate the normalized url, then plan
validated_prepare_download(matches, format_id, platform_name, env) ==
    IF ~matches THEN PlanErr("ValueError", "invalid_url", <<>>)
    ELSE prepare_download_options(format_id, platform_name, env)

-----------------------------------------------------------------------------
(* Defaults of the variables a specification does not use *)

NoBuilt == [builder |-> "none", platform |-> "", result |-> NoResult]

CatIdle == raw = <<>> /\ built = NoBuilt /\ pcCat = "idle"

AllUrls == CacheUrls \cup YoutubeUrls
Hashes == {get_url_hash(u) : u \in AllUrls}
EmptyStore == [h \in Hashes |-> NoRow]

NoOp ==
    [op |-> "none", url |-> "", platform |-> "", hit |-> FALSE,
     value |-> NoResult, count |-> 0, found |-> ""]

\* the (url, platform) pairs the cache is exercised with: one url under two
\* platforms, and a second url
CacheKeys ==
    { <<"https://youtu.be/abc", "youtube">>,
      <<"https://youtu.be/abc", "facebook">>,
      <<"https://www.youtube.com/watch?v=abc", "youtube">> }
NoSet == [set |-> FALSE, payload |-> NoResult, at |-> 0]
NoHist == [k \in CacheKeys |-> NoSet]

CacheIdle ==
    store = EmptyStore /\ now = 0 /\ ticks = 0 /\ lastOp = NoOp /\ hist = NoHist

\* what the network answered during a Facebook call: the answer of
\* PRIMARY_EXTRACT ("skip" when it was not called), how analyze_platform ended,
\* the answers the helper got in the forced and in the fallback position
\* (HelperNotCalled when it was not called), and the catalog analyze_platform
\* returned
NoFacts ==
    [primary |-> "skip", extraction |-> "skip", forced_helper |-> HelperNotCalled,
     fallback_helper |-> HelperNotCalled, primary_result |-> NoResult,
     flat |-> "skip", primary_msg |-> "", flat_msg |-> "", clients |-> <<>>]

NoCall ==
    [seq |-> 0, source |-> "", url |-> "", normalized |-> "", forced |-> FALSE,
     outcome |-> "none", error |-> "", msg |-> "", stages |-> <<>>, via |-> "",
     result |-> NoResult, facts |-> NoFacts]
CallIdle == call = NoCall /\ fbme_cache = NoFbme

\* what the second re-analysis of a planner call answered
NoRecheck == [ok |-> FALSE, mp4 |-> <<>>]

NoPlan ==
    [source |-> "", url |-> "", normalized |-> "", format_id |-> "",
     catalog |-> NoResult, resolved |-> FALSE, r |-> PlanErr("", "", <<>>),
     done |-> FALSE, helper |-> HelperNotCalled, recheck |-> NoRecheck]
PlanIdle == plan = NoPlan

\* the callers that use the cache at the same time
ConcProcs == {"r1", "r2"}

\* a caller between calls: at is the statement of get it has reached
\* ("idle", "selected" after the SELECT, "updated" after the UPDATE), t its
\* current_time, data / created_at the row its SELECT fetched, calls the
\* number of calls it has begun, overtaken whether a set was committed since
\* its SELECT, ret what its last get returned
NoProc ==
    [at |-> "idle", t |-> 0, data |-> JNull, created_at |-> 0, calls |-> 0,
     overtaken |-> FALSE, ret |-> "none"]
NoConc == [pc |-> [p \in ConcProcs |-> NoProc], last |-> NoSet, damaged |-> FALSE]
ConcIdle == conc = NoConc

-----------------------------------------------------------------------------
(* Options: base.py _safe_int and build_ydl_opts, on the two settings the
   sources are tuned by *)

\* an environment variable: set is FALSE when os.environ.get returns None
EnvUnset == [set |-> FALSE, text |-> ""]
EnvText(text) == [set |-> TRUE, text |-> text]

\* str.strip() on blanks
RECURSIVE LStrip(_)
LStrip(s) == IF s # "" /\ CharAt(s, 1) = " " THEN LStrip(SubSeq(s, 2, Len(s))) ELSE s
RECURSIVE RStrip(_)
RStrip(s) ==
    IF s # "" /\ CharAt(s, Len(s)) = " " THEN RStrip(SubSeq(s, 1, Len(s) - 1)) ELSE s
Strip(s) == RStrip(LStrip(s))

\* whether int(s) returns, for s already stripped
IntParses(s) ==
    \/ s # "" /\ AllDigits(s)
    \/ /\ Len(s) > 1
       /\ CharAt(s, 1) \in {"-", "+"}
       /\ AllDigits(SubSeq(s, 2, Len(s)))

IntValue(s) ==
    IF CharAt(s, 1) = "-" THEN 0 - ParseInt(SubSeq(s, 2, Len(s)))
    ELSE IF CharAt(s, 1) = "+" THEN ParseInt(SubSeq(s, 2, Len(s)))
    ELSE ParseInt(s)

_safe_int(value, default) ==
    IF ~value.set THEN default
    ELSE LET s == Strip(value.text)
         IN  IF s = "" THEN default
             ELSE IF IntParses(s) THEN IntValue(s)
             ELSE default

DefaultSocketTimeout == 10
DefaultRetries == 2
DefaultFragmentRetries == 3

YoutubeNames == {"youtube", "youtu", "yt"}
FlakyPlatforms ==
    {"instagram", "facebook", "tiktok", "twitter", "x", "pinterest",
     "linkedin", "reddit", "snapchat"}

\* no overrides for the settings modelled
NoOverrides == [k \in {} |-> 0]

\* opts.update(overrides)
UpdateOpts(opts, overrides) ==
    [k \in DOMAIN opts |-> IF k \in DOMAIN overrides THEN overrides[k] ELSE opts[k]]

\* the platform tuning alone; platform "" is platform=None
TuneOpts(opts, platform) ==
    IF platform = "" THEN opts
    ELSE IF platform \in YoutubeNames
    THEN [opts EXCEPT
            !.socket_timeout = IF @ > 15 THEN 15 ELSE @,
            !.retries = IF @ > 2 THEN 2 ELSE @]
    ELSE IF platform \in FlakyPlatforms
    THEN [opts EXCEPT
            !.socket_timeout = IF @ < 25 THEN 25 ELSE @,
            !.retries = IF @ < 3 THEN 3 ELSE @,
            !.fragment_retries = IF @ < 4 THEN 4 ELSE @]
    ELSE [opts EXCEPT !.socket_timeout = IF @ < 20 THEN 20 ELSE @]

build_ydl_opts(env, overrides, platform) ==
    LET opts ==
            [socket_timeout |-> _safe_int(env.SOCKET_TIMEOUT, DefaultSocketTimeout),
             retries |-> _safe_int(env.RETRIES, DefaultRetries),
             fragment_retries |-> DefaultFragmentRetries]
    IN  UpdateOpts(TuneOpts(opts, platform), overrides)

\* youtube.py prepare_download: the settings it overrides
YtPlanOverrides == [retries |-> 5, fragment_retries |-> 5]

\* the options YoutubeDL is built with when a source resolves a url
ResolveOpts(env, src) == build_ydl_opts(env, NoOverrides, src)

\* the options a source's prepare_download returns for a format that is
\* fetched through yt-dlp
PlanYdlOpts(env, src) ==
    IF src = "youtube" THEN build_ydl_opts(env, YtPlanOverrides, "youtube")
    ELSE build_ydl_opts(env, NoOverrides, "")

\* the options the download task starts from
TaskOpts(env, src) == build_ydl_opts(env, NoOverrides, src)

NoOpts == [socket_timeout |-> 0, retries |-> 0, fragment_retries |-> 0, platform |-> ""]
NoEnv == [SOCKET_TIMEOUT |-> EnvUnset, RETRIES |-> EnvUnset]

\* stage is "resolve", "plan" or "task"; fast / slow / other are the options
\* last handed over at that stage for YouTube, for a flaky source and for
\* any other source
NoYdl == [env |-> NoEnv, stage |-> "", fast |-> NoOpts, slow |-> NoOpts, other |-> NoOpts]
YdlIdle == ydl = NoYdl

-----------------------------------------------------------------------------
(* instagram.py analyze, lines 75-99: the thumbnail_url it adds to what
   analyze_platform returned *)

\* a key of the dict: has is FALSE when the key is missing (get gives None)
NoField == [has |-> FALSE, v |-> ""]
Field(v) == [has |-> TRUE, v |-> v]

DefaultIcon == "/static/og-default.svg"

\* Python truthiness of info.get(key)
Truthy(f) == f.has /\ f.v # ""

\* info.get("display_resources", [{}])[-1].get("src") if the value is a
\* list, else None; dr.list is FALSE when the key is missing, dr.items the
\* 'src' of each entry. [][-1] raises IndexError.
LastSrcRaises(dr) == dr.list /\ dr.items = <<>>
LastSrc(dr) == IF dr.list THEN dr.items[Len(dr.items)] ELSE NoField

\* the or-chain of lines 84-93 followed by line 95
ThumbnailUrl(info) ==
    IF Truthy(info.thumbnail) THEN info.thumbnail.v
    ELSE IF Truthy(info.thumbnail_url) THEN info.thumbnail_url.v
    ELSE IF Truthy(info.display_url) THEN info.display_url.v
    ELSE IF Truthy(LastSrc(info.display_resources)) THEN LastSrc(info.display_resources).v
    ELSE DefaultIcon

\* whether evaluating the or-chain reaches the display_resources operand
ReachesResources(info) ==
    ~Truthy(info.thumbnail) /\ ~Truthy(info.thumbnail_url) /\ ~Truthy(info.display_url)

\* ret is "None", "dict" or "raise"
IgOut(ret, error, thumbnail_url) ==
    [ret |-> ret, error |-> error, thumbnail_url |-> thumbnail_url]

\* lines 80-96, info being what analyze_platform returned
instagram_finish(info) ==
    IF info.none THEN IgOut("None", "", "")
    ELSE IF ReachesResources(info) /\ LastSrcRaises(info.display_resources)
    THEN IgOut("raise", "IndexError", "")
    ELSE IgOut("dict", "", ThumbnailUrl(info))

NoResources == [list |-> FALSE, items |-> <<>>]
NoInfoDict ==
    [none |-> FALSE, thumbnail |-> NoField, thumbnail_url |-> NoField,
     display_url |-> NoField, display_resources |-> NoResources]
NoIg == [pc |-> "idle", info |-> NoInfoDict, out |-> IgOut("", "", "")]
IgIdle == ig = NoIg

\* no task has run: nothing written to the progress store, no Extractor call
NoTask ==
    [pc |-> "idle", url |-> "", arg |-> "", platform |-> "", format_id |-> "",
     written |-> <<>>, extractor |-> 0, hooks |-> 0, ret |-> "none",
     error |-> "", cookies |-> FALSE]
TaskIdle == task = NoTask

\* no download was started: the downloads table is empty (table is the row
\* of the one id, << >> when there is none), nothing was answered
NoJobs ==
    [pc |-> "idle", id |-> "", url |-> "", format |-> "", convert |-> "",
     table |-> <<>>, answers |-> <<>>]
JobsIdle == jobs = NoJobs

-----------------------------------------------------------------------------
(* SpecCatalog: the catalog builders applied to every bounded raw list *)

Durations == {0, 60}
CatalogPlatforms == {"instagram", "facebook"}

RawItem(fmts, duration) == MkItem("vid", fmts, duration, {}, <<>>)

\* analyze_platform on one extractor answer whose formats are raw
BuildGeneric ==
    /\ pcCat = "input"
    /\ \E platform \in CatalogPlatforms, d \in Durations :
         built' = [builder |-> "generic", platform |-> platform,
                   result |-> BaseResult(SingleInfo(RawItem(raw, d)), platform)]
    /\ pcCat' = "built"
    /\ UNCHANGED <<raw, store, now, ticks, lastOp, hist, call, fbme_cache, plan, conc, ydl, ig, task, jobs>>

\* youtube.analyze on client answers whose combined formats are raw
BuildYoutube ==
    /\ pcCat = "input"
    /\ \E d \in Durations :
         built' = [builder |-> "youtube", platform |-> "youtube",
                   result |-> YtResult(RawItem(raw, d), raw)]
    /\ pcCat' = "built"
    /\ UNCHANGED <<raw, store, now, ticks, lastOp, hist, call, fbme_cache, plan, conc, ydl, ig, task, jobs>>

InitCatalog ==
    /\ raw \in RawLists
    /\ built = NoBuilt
    /\ pcCat = "input"
    /\ CacheIdle
    /\ CallIdle
    /\ PlanIdle
    /\ ConcIdle
    /\ YdlIdle
    /\ IgIdle /\ TaskIdle /\ JobsIdle

NextCatalog == BuildGeneric \/ BuildYoutube

SpecCatalog == InitCatalog /\ [][NextCatalog]_vars

-----------------------------------------------------------------------------
(* SpecCache: VideoCache driven through its public operations *)

MaxTicks == 2
MaxAccess == 2

\* clock advances between operations, in seconds
ClockSteps == {ttl_seconds}

\* the payloads that get cached: two catalogs of the YouTube builder
SampleRaw1 == << MkRaw(HlsShape, 1), MkRaw(AudioShape, 2) >>
SampleRaw2 == << MkRaw(PremiumShape, 1) >>
SamplePayloads ==
    { YtResult(RawItem(SampleRaw1, 60), SampleRaw1),
      YtResult(RawItem(SampleRaw2, 0), SampleRaw2) }

\* time.time() moves on
Tick ==
    /\ ticks < MaxTicks
    /\ \E d \in ClockSteps : now' = now + d
    /\ ticks' = ticks + 1
    /\ UNCHANGED <<store, lastOp, hist, raw, built, pcCat, call, fbme_cache, plan, conc, ydl, ig, task, jobs>>

\* cache.get(url, platform)
Get ==
    \E k \in CacheKeys :
        LET url == k[1]
            platform == k[2]
            r == CacheGet(store, now, url, platform)
        IN  /\ store[get_url_hash(url)].access_count < MaxAccess
            /\ store' = r.store
            /\ lastOp' = [op |-> "get", url |-> url, platform |-> platform,
                          hit |-> r.ret.hit, value |-> r.ret.value, count |-> 0,
                          found |-> GetFound(store, now, url, platform)]
            /\ UNCHANGED <<now, ticks, hist, raw, built, pcCat, call, fbme_cache, plan, conc, ydl, ig, task, jobs>>

\* cache.set(url, data, platform)
Set ==
    \E k \in CacheKeys, data \in SamplePayloads :
      LET url == k[1]
          platform == k[2]
      IN
        /\ store' = CacheSet(store, now, url, data, platform)
        /\ lastOp' = [op |-> "set", url |-> url, platform |-> platform,
                      hit |-> FALSE, value |-> data, count |-> 0, found |-> ""]
        /\ hist' = [hist EXCEPT ![<<url, platform>>] =
                        [set |-> TRUE, payload |-> data, at |-> now]]
        /\ UNCHANGED <<now, ticks, raw, built, pcCat, call, fbme_cache, plan, conc, ydl, ig, task, jobs>>

\* cache.clear_expired()
ClearExpired ==
    /\ store' = CacheClearExpired(store, now)
    /\ lastOp' = [NoOp EXCEPT !.op = "clear_expired",
                              !.count = ClearExpiredCount(store, now)]
    /\ UNCHANGED <<now, ticks, hist, raw, built, pcCat, call, fbme_cache, plan, conc, ydl, ig, task, jobs>>

\* cache.clear_all(): every key is written
ClearAll ==
    /\ store' = CacheClearAll(store)
    /\ lastOp' = [NoOp EXCEPT !.op = "clear_all"]
    /\ hist' = NoHist
    /\ UNCHANGED <<now, ticks, raw, built, pcCat, call, fbme_cache, plan, conc, ydl, ig, task, jobs>>

InitCache ==
    /\ CatIdle /\ CacheIdle /\ CallIdle /\ PlanIdle /\ ConcIdle /\ YdlIdle
    /\ IgIdle /\ TaskIdle /\ JobsIdle

NextCache == Tick \/ Get \/ Set \/ ClearExpired \/ ClearAll

SpecCache == InitCache /\ [][NextCache]_vars

-----------------------------------------------------------------------------
(* SpecDamage: VideoCache driven through its public operations while stored
   texts may stop being valid JSON *)

\* the text of one row is damaged (a torn or foreign write); what set wrote
\* under that url is gone with it
Damage ==
    \E u \in CacheUrls :
        /\ store[get_url_hash(u)].present
        /\ store[get_url_hash(u)].data # JCorrupt
        /\ store' = [store EXCEPT ![get_url_hash(u)].data = JCorrupt]
        /\ lastOp' = [NoOp EXCEPT !.op = "damage", !.url = u]
        /\ hist' = [k \in CacheKeys |-> IF k[1] = u THEN NoSet ELSE hist[k]]
        /\ UNCHANGED <<now, ticks, raw, built, pcCat, call, fbme_cache, plan, conc, ydl, ig, task, jobs>>

NextDamage == Tick \/ Get \/ Set \/ ClearExpired \/ ClearAll \/ Damage

SpecDamage == InitCache /\ [][NextDamage]_vars

-----------------------------------------------------------------------------
(* The analyze entry points as actions: one call from argument to return *)

\* the record of a finished call; seq tells successive calls apart
Completed(source, url, normalized, forced, r, facts) ==
    [seq |-> 1 - call.seq, source |-> source, url |-> url, normalized |-> normalized,
     forced |-> forced, outcome |-> r.outcome, error |-> r.error, msg |-> r.msg,
     stages |-> r.stages, via |-> r.via, result |-> r.result, facts |-> facts]

Untouched == UNCHANGED <<raw, built, pcCat, now, ticks, lastOp, hist, plan, conc, ydl, ig, task, jobs>>

\* the answers a call of analyze_platform consumed; p is what it returned
platform_facts(p, env) ==
    IF p.stages = <<>> THEN NoFacts
    ELSE [NoFacts EXCEPT
            !.primary = env.primary.kind, !.flat = env.flat.kind,
            !.primary_msg = env.primary.msg, !.flat_msg = env.flat.msg,
            !.extraction = p.outcome,
            !.primary_result = p.result]

\* the answers the two playlist extractions of youtube.analyze gave; r is
\* what the cached analyze returned
\* what one player client answered: formats, an info without formats
\* ("bare"), None ("empty") or an exception with its message
ClientFact(a) ==
    [kind |-> IF a.kind # "ok" THEN a.kind
              ELSE IF a.info.item.formats # <<>> THEN "formats" ELSE "bare",
     msg |-> a.msg]

youtube_facts(r, env) ==
    IF r.stages = ClientStages
    THEN [NoFacts EXCEPT !.clients = [i \in 1..Len(clients) |-> ClientFact(env.clients[i])],
                         !.extraction = r.outcome]
    ELSE IF r.stages = <<>> \/ r.stages[1] # "PLAYLIST_FLAT" THEN NoFacts
    ELSE [NoFacts EXCEPT
            !.primary = env.plist1.kind, !.flat = env.plist2.kind,
            !.primary_msg = env.plist1.msg, !.flat_msg = env.plist2.msg,
            !.extraction = r.outcome]

AnalyzeYoutube(envs) ==
    \E url \in YoutubeUrls :
      \E env \in IF is_playlist_like(url) THEN envs.playlist ELSE envs.video :
        LET c == cached_youtube_analyze(store, now, url, env)
        IN  /\ store[get_url_hash(url)].access_count < MaxAccess
            /\ store' = c.store
            /\ call' = Completed("youtube", url, url, FALSE, c.r, youtube_facts(c.r, env))
            /\ UNCHANGED fbme_cache
            /\ Untouched

\* the answers facebook_analyze consumed, in the order of its code
facebook_facts(normalized, env) ==
    LET h1 == get_facebook_mp4(env.helper1)
        p == analyze_platform(facebook_URL_PATTERNS(normalized), "facebook", env.platform)
        reached == ~(env.forced /\ h1.url # 0)
        fell_back == reached /\ (p.outcome # "ok" \/ ~HasProgressive(p.result.mp4))
    IN  [primary |-> IF reached /\ p.stages # <<>> THEN env.platform.primary.kind
                     ELSE "skip",
         extraction |-> IF reached THEN p.outcome ELSE "skip",
         forced_helper |-> IF env.forced THEN env.helper1 ELSE HelperNotCalled,
         fallback_helper |-> IF fell_back THEN env.helper2 ELSE HelperNotCalled,
         primary_result |-> IF reached /\ p.outcome = "ok" THEN TagYtDlp(p.result)
                            ELSE NoResult,
         flat |-> IF reached /\ p.stages # <<>> THEN env.platform.flat.kind ELSE "skip",
         primary_msg |-> IF reached /\ p.stages # <<>> THEN env.platform.primary.msg
                         ELSE "",
         flat_msg |-> IF reached /\ p.stages # <<>> THEN env.platform.flat.msg ELSE "",
         clients |-> <<>>]

AnalyzeFacebook(envs) ==
    \E url \in FacebookUrls, env \in envs :
      \E redirect \in IF is_fbme(url) THEN RedirectOutcomes ELSE {"failed"} :
        LET n == normalize_with_redirect(url, fbme_cache, now, redirect)
            r == facebook_analyze(n.url, env)
        IN  /\ call' = Completed("facebook", url, n.url, env.forced,
                                 [r EXCEPT !.stages = n.stages \o @],
                                 facebook_facts(n.url, env))
            /\ fbme_cache' = n.cache
            /\ UNCHANGED store
            /\ Untouched

\* a source whose analyze neither reads nor writes module state
Stateless(source, url, normalized, r, p, env) ==
    /\ call' = Completed(source, url, normalized, FALSE, r, platform_facts(p, env))
    /\ UNCHANGED <<store, fbme_cache>>
    /\ Untouched

AnalyzeInstagram(envs) ==
    \E url \in InstagramUrls, env \in envs :
        Stateless("instagram", url, normalize_instagram_url(url), instagram_analyze(url, env),
                  analyze_platform(instagram_URL_PATTERNS(normalize_instagram_url(url)), "instagram", env), env)

AnalyzeTiktok(envs) ==
    \E url \in TiktokUrls, env \in envs :
        Stateless("tiktok", url, normalize_tiktok_url(url), tiktok_analyze(url, env),
                  analyze_platform(tiktok_URL_PATTERNS(normalize_tiktok_url(url)), "tiktok", env), env)

AnalyzeTwitter(envs) ==
    \E url \in TwitterUrls, env \in envs :
        Stateless("twitter", url, normalize_twitter_url(url), twitter_analyze(url, env),
                  analyze_platform(twitter_URL_PATTERNS(normalize_twitter_url(url)), "twitter", env), env)

AnalyzePinterest(envs) ==
    \E url \in PinterestUrls, env \in envs :
        Stateless("pinterest", url, normalize_pinterest_url(url), pinterest_analyze(url, env),
                  analyze_platform(pinterest_URL_PATTERNS(normalize_pinterest_url(url)), "pinterest", env), env)

AnalyzeSnapchat(envs) ==
    \E url \in SnapchatUrls, env \in envs :
        Stateless("snapchat", url, normalize_snapchat_url(url), snapchat_analyze(url, env),
                  analyze_platform(snapchat_URL_PATTERNS(normalize_snapchat_url(url)), "snapchat", env), env)

AnalyzeNaver(envs) ==
    \E url \in NaverUrls, env \in envs :
        Stateless("naver", url, url, naver_analyze(url, env),
                  analyze_platform(naver_URL_PATTERNS(url), "naver", env), env)

AnalyzeLinkedin(envs) ==
    \E url \in LinkedinUrls, env \in envs :
        Stateless("linkedin", url, normalize_linkedin_url(url), linkedin_analyze(url, env),
                  analyze_platform(linkedin_URL_PATTERNS(normalize_linkedin_url(url)), "linkedin", env.platform),
                  env.platform)

AnalyzeReddit(envs) ==
    \E url \in RedditUrls, env \in envs :
        Stateless("reddit", url, normalize_reddit_url(url), reddit_analyze(url, env),
                  analyze_platform(reddit_URL_PATTERNS(normalize_reddit_url(url)), "reddit", env.platform),
                  env.platform)

-----------------------------------------------------------------------------
(* Spec: one analyze call of any source, under every network behaviour *)

NoClients == << NotCalled, NotCalled, NotCalled >>

YoutubeEnvs ==
    [video |-> {[clients |-> << a, b, c >>, plist1 |-> NotCalled, plist2 |-> NotCalled] :
                   a \in ClientAnswers("ios"), b \in ClientAnswers("web"),
                   c \in ClientAnswers("android")},
     playlist |->
        {[clients |-> NoClients, plist1 |-> a, plist2 |-> NotCalled] :
            a \in {Returned(TwoPlaylist), Returned(EmptyPlaylist), ReturnedNone}}
        \cup {[clients |-> NoClients, plist1 |-> Raised("error"), plist2 |-> a] :
            a \in {Returned(TwoPlaylist), ReturnedNone, Raised("error"),
                   Raised("private"), Raised("unavailable")}}]

OpenGraphEnvs == [platform : PlatformEnvs, og : OgEnvs]

\* no call has been made yet
Fresh == call.outcome = "none"

ResolveYoutube == Fresh /\ AnalyzeYoutube(YoutubeEnvs)
ResolveFacebook == Fresh /\ AnalyzeFacebook(FacebookEnvs)
ResolveInstagram == Fresh /\ AnalyzeInstagram(PlatformEnvs)
ResolveTiktok == Fresh /\ AnalyzeTiktok(PlatformEnvs)
ResolveTwitter == Fresh /\ AnalyzeTwitter(PlatformEnvs)
ResolvePinterest == Fresh /\ AnalyzePinterest(PlatformEnvs)
ResolveSnapchat == Fresh /\ AnalyzeSnapchat(PlatformEnvs)
ResolveNaver == Fresh /\ AnalyzeNaver(PlatformEnvs)
ResolveLinkedin == Fresh /\ AnalyzeLinkedin(OpenGraphEnvs)
ResolveReddit == Fresh /\ AnalyzeReddit(OpenGraphEnvs)

Init ==
    /\ CatIdle /\ CacheIdle /\ CallIdle /\ PlanIdle /\ ConcIdle /\ YdlIdle
    /\ IgIdle /\ TaskIdle /\ JobsIdle

Next ==
    \/ ResolveYoutube \/ ResolveFacebook \/ ResolveInstagram \/ ResolveTiktok
    \/ ResolveTwitter \/ ResolvePinterest \/ ResolveSnapchat \/ ResolveNaver
    \/ ResolveLinkedin \/ ResolveReddit

Spec == Init /\ [][Next]_vars

-----------------------------------------------------------------------------
(* SpecRepeat: analyze calls one after another, each source succeeding or
   failing, with the cache and the short-link cache carried along *)

WorksOrFails ==
    {[primary |-> Returned(ProgInfo), flat |-> NotCalled],
     [primary |-> Raised("error"), flat |-> Raised("error")]}

YoutubeWorksOrFails ==
    [video |-> {[clients |-> << Returned(SingleInfo(ClientInfo("ios"))),
                                Returned(SingleInfo(ClientInfo("web"))),
                                Returned(SingleInfo(ClientInfo("android"))) >>,
                 plist1 |-> NotCalled, plist2 |-> NotCalled],
                [clients |-> << Raised("error"), Raised("error"), Raised("error") >>,
                 plist1 |-> NotCalled, plist2 |-> NotCalled]},
     playlist |-> {[clients |-> NoClients, plist1 |-> Returned(TwoPlaylist),
                    plist2 |-> NotCalled],
                   [clients |-> NoClients, plist1 |-> Raised("error"),
                    plist2 |-> Raised("error")]}]

FacebookWorksOrFails ==
    [forced : {FALSE}, helper1 : {HelperNotCalled}, platform : WorksOrFails,
     helper2 : {[extract |-> "url", scrape |-> "skip"],
                [extract |-> "raise", scrape |-> "none"]},
     augment : {Returned(ProgInfo)}]

OpenGraphWorksOrFails ==
    [platform : WorksOrFails,
     og : {[fetch |-> "httpx", page |-> "video"], [fetch |-> "failed", page |-> "none"]}]

RepeatYoutube == AnalyzeYoutube(YoutubeWorksOrFails)
RepeatFacebook == AnalyzeFacebook(FacebookWorksOrFails)
RepeatInstagram == AnalyzeInstagram(WorksOrFails)
RepeatTiktok == AnalyzeTiktok(WorksOrFails)
RepeatTwitter == AnalyzeTwitter(WorksOrFails)
RepeatPinterest == AnalyzePinterest(WorksOrFails)
RepeatSnapchat == AnalyzeSnapchat(WorksOrFails)
RepeatNaver == AnalyzeNaver(WorksOrFails)
RepeatLinkedin == AnalyzeLinkedin(OpenGraphWorksOrFails)
RepeatReddit == AnalyzeReddit(OpenGraphWorksOrFails)

NextRepeat ==
    \/ RepeatYoutube \/ RepeatFacebook \/ RepeatInstagram \/ RepeatTiktok
    \/ RepeatTwitter \/ RepeatPinterest \/ RepeatSnapchat \/ RepeatNaver
    \/ RepeatLinkedin \/ RepeatReddit

SpecRepeat == Init /\ [][NextRepeat]_vars

-----------------------------------------------------------------------------
(* SpecPlan: one prepare_download call of any source, for every requested
   format id and every answer of the network *)

PlanInfos == {ProgInfo, DashInfo, ImageInfo, ThumbInfo, CarouselInfo}

\* the re-analysis succeeds at the first Extractor call, or both calls raise
PlanAnswers ==
    {[primary |-> Returned(i), flat |-> NotCalled] : i \in PlanInfos}
        \cup {[primary |-> Raised("error"), flat |-> Raised("error")]}

PlanHelpers ==
    {[extract |-> "url", scrape |-> "skip"], [extract |-> "nourl", scrape |-> "url"],
     [extract |-> "raise", scrape |-> "none"]}

PlanEnvs == [first : PlanAnswers, second : PlanAnswers, helper : {HelperNotCalled}]
FacebookPlanEnvs == [first : PlanAnswers, second : PlanAnswers, helper : PlanHelpers]
YoutubePlanAnswers == {Returned(ProgInfo), Returned(DashInfo), ReturnedNone, Raised("error")}

\* the format ids asked for: selectors, audio presets, mp3 bitrates of one to
\* four digits, image ids, ids of catalog entries and an id no catalog holds
RequestIds ==
    {"best", "audio", "bestaudio", "mp3", "m4a", "mp3_128", "mp3_500", "mp3_16",
     "mp3_5", "mp3_1000", "MP3-64", "img0", "img1", "0", "f1", "f3", "zz",
     "f3+bestaudio"}

\* the record of a finished planner call; catalog is what the source resolves
\* from the answer the planner saw
Planned(source, url, normalized, format_id, first, r) ==
    [source |-> source, url |-> url, normalized |-> normalized,
     format_id |-> format_id, catalog |-> first.result,
     resolved |-> first.outcome = "ok", r |-> r, done |-> TRUE,
     helper |-> HelperNotCalled, recheck |-> NoRecheck]

\* what the second re-analysis of the call answered
RecheckOf(second) == [ok |-> second.outcome = "ok", mp4 |-> second.result.mp4]
Recheck(source, env) == RecheckOf(analyze_platform(TRUE, source, env.second))

\* the answer of the helper, if the call r reached it
HelperSeen(r, env) ==
    IF \E i \in 1..Len(r.stages) : r.stages[i] \in {"HELPER_EXTRACT", "DIRECT_SCRAPE"}
    THEN env.helper ELSE HelperNotCalled

PlanFrame == UNCHANGED <<raw, built, pcCat, store, now, ticks, lastOp, hist, call, conc, ydl, ig, task, jobs>>

\* a source whose prepare_download validates the normalized url
PlanValidated(source, url, normalized, matches, ids) ==
    /\ ~plan.done
    /\ \E format_id \in ids, env \in PlanEnvs :
        /\ plan' = [Planned(source, url, normalized, format_id,
                            analyze_platform(TRUE, source, env.first),
                            validated_prepare_download(matches, format_id, source, env))
                      EXCEPT !.recheck = Recheck(source, env)]
        /\ UNCHANGED fbme_cache
        /\ PlanFrame

PrepareValidated(source, url, normalized, matches) ==
    PlanValidated(source, url, normalized, matches, RequestIds)

PrepareYoutube ==
    /\ ~plan.done
    /\ \E url \in YoutubeUrls, format_id \in RequestIds, ans \in YoutubePlanAnswers :
        /\ plan' = Planned("youtube", url, url, format_id,
                           IF ans.kind = "ok"
                           THEN Ok(YtResult(ans.info.item, ans.info.item.formats),
                                   <<>>, "extract")
                           ELSE Err("ConnectionError", "no_info", <<>>),
                           youtube_prepare_download(format_id, ans))
        /\ UNCHANGED fbme_cache
        /\ PlanFrame

\* facebook.py prepare_download: n is what the normalizer answered
FacebookPlanned(url, format_id, env, n, r) ==
    [Planned("facebook", url, n.url, format_id,
             analyze_platform(TRUE, "facebook", env.first),
             [r EXCEPT !.stages = n.stages \o @])
       EXCEPT !.helper = HelperSeen(r, env),
              !.recheck = Recheck("facebook", env)]

FacebookStep(url, format_id, env, n) ==
    /\ plan' = FacebookPlanned(url, format_id, env, n,
                               validated_prepare_download(facebook_URL_PATTERNS(n.url),
                                                          format_id, "facebook", env))
    /\ fbme_cache' = n.cache
    /\ PlanFrame

PlanFacebook(urls, ids) ==
    /\ ~plan.done
    /\ \E url \in urls, format_id \in ids, env \in FacebookPlanEnvs :
      \E redirect \in IF is_fbme(url) THEN RedirectOutcomes ELSE {"failed"} :
        FacebookStep(url, format_id, env,
                     normalize_with_redirect(url, fbme_cache, now, redirect))

PrepareFacebook == PlanFacebook(FacebookUrls, RequestIds)

\* instagram.py and naver.py prepare_download do not validate the url
PrepareInstagram ==
    \E url \in InstagramUrls :
        PrepareValidated("instagram", url, normalize_instagram_url(url), TRUE)

PrepareNaver == \E url \in NaverUrls : PrepareValidated("naver", url, url, TRUE)

PrepareTiktok ==
    \E url \in TiktokUrls :
        PrepareValidated("tiktok", url, normalize_tiktok_url(url),
                         tiktok_URL_PATTERNS(normalize_tiktok_url(url)))

PrepareTwitter ==
    \E url \in TwitterUrls :
        PrepareValidated("twitter", url, normalize_twitter_url(url),
                         twitter_URL_PATTERNS(normalize_twitter_url(url)))

PreparePinterest ==
    \E url \in PinterestUrls :
        PrepareValidated("pinterest", url, normalize_pinterest_url(url),
                         pinterest_URL_PATTERNS(normalize_pinterest_url(url)))

PrepareSnapchat ==
    \E url \in SnapchatUrls :
        PrepareValidated("snapchat", url, normalize_snapchat_url(url),
                         snapchat_URL_PATTERNS(normalize_snapchat_url(url)))

PrepareLinkedin ==
    \E url \in LinkedinUrls :
        PrepareValidated("linkedin", url, normalize_linkedin_url(url),
                         linkedin_URL_PATTERNS(normalize_linkedin_url(url)))

PrepareReddit ==
    \E url \in RedditUrls :
        PrepareValidated("reddit", url, normalize_reddit_url(url),
                         reddit_URL_PATTERNS(normalize_reddit_url(url)))

NextPlan ==
    \/ PrepareYoutube \/ PrepareFacebook \/ PrepareInstagram \/ PrepareNaver
    \/ PrepareTiktok \/ PrepareTwitter \/ PreparePinterest \/ PrepareSnapchat
    \/ PrepareLinkedin \/ PrepareReddit

SpecPlan == Init /\ [][NextPlan]_vars

-----------------------------------------------------------------------------
(* SpecFulfil: a source with a scrape fallback resolves a url, and the same
   source is then asked to plan the download of a Format the result offers *)

\* the last analyze call returned a result built by a scrape fallback
FallbackOffered ==
    call.outcome = "ok" /\ call.via \in {"opengraph", "direct", "forced"}

\* the Formats the result of the last call offers
OfferedFormats ==
    LET c == call.result
        all == Flatten([i \in 1..Len(c.items) |-> c.items[i].formats])
                  \o c.mp4 \o c.mp3 \o c.jpg \o c.images
    IN  {all[i] : i \in 1..Len(all)}

OfferedIds == {f.format_id : f \in OfferedFormats}

\* the planner of the same source is called with the url of the last analyze
\* call and the id of a Format its fallback result offered
FulfilLinkedin ==
    /\ FallbackOffered /\ call.source = "linkedin"
    /\ PlanValidated("linkedin", call.url, normalize_linkedin_url(call.url),
                     linkedin_URL_PATTERNS(normalize_linkedin_url(call.url)), OfferedIds)

FulfilReddit ==
    /\ FallbackOffered /\ call.source = "reddit"
    /\ PlanValidated("reddit", call.url, normalize_reddit_url(call.url),
                     reddit_URL_PATTERNS(normalize_reddit_url(call.url)), OfferedIds)

FulfilFacebook ==
    /\ FallbackOffered /\ call.source = "facebook"
    /\ PlanFacebook({call.url}, OfferedIds)

\* Facebook is resolved with the Extractor working or failing, under every
\* behaviour of the helper, with and without the forced path
FulfilFacebookEnvs ==
    [forced : {FALSE}, helper1 : {HelperNotCalled}, platform : WorksOrFails,
     helper2 : HelperEnvs, augment : {Returned(ProgInfo)}]
        \cup [forced : {TRUE}, helper1 : HelperEnvs, platform : WorksOrFails,
              helper2 : HelperEnvs, augment : {Returned(ProgInfo)}]

OfferFacebook == Fresh /\ AnalyzeFacebook(FulfilFacebookEnvs)

NextFulfil ==
    \/ ResolveLinkedin \/ ResolveReddit \/ OfferFacebook
    \/ FulfilLinkedin \/ FulfilReddit \/ FulfilFacebook

SpecFulfil == Init /\ [][NextFulfil]_vars

-----------------------------------------------------------------------------
(* SpecConcurrent: VideoCache.get and VideoCache.set of several callers on one
   key, interleaved statement by statement. Every call opens a connection of
   its own (sqlite3.connect); the SELECT of get is a read of its own, and each
   UPDATE / DELETE / INSERT OR REPLACE is committed before the call goes on,
   so the statements of other callers come between those of one get. *)

MaxCalls == 2

ConcKey == <<"https://youtu.be/abc", "youtube">>
ConcHash == get_url_hash(ConcKey[1])

Proc(p) == conc.pc[p]
MayBegin(p) == Proc(p).at = "idle" /\ Proc(p).calls < MaxCalls

\* the caller is back from get with ret
BackFromGet(p, ret) == [NoProc EXCEPT !.calls = Proc(p).calls, !.ret = ret]

ConcFrame == UNCHANGED <<raw, built, pcCat, now, ticks, lastOp, hist, call, fbme_cache, plan, ydl, ig, task, jobs>>

\* get, lines 64-76: current_time, the SELECT, `if not row: return None`
ConcGetSelect ==
    \E p \in ConcProcs :
        LET row == store[ConcHash]
        IN  /\ MayBegin(p)
            /\ conc' = [conc EXCEPT !.pc[p] =
                    IF row.present /\ row.platform = ConcKey[2]
                    THEN [at |-> "selected", t |-> now, data |-> row.data,
                          created_at |-> row.created_at, calls |-> @.calls + 1,
                          overtaken |-> FALSE, ret |-> "none"]
                    ELSE [NoProc EXCEPT !.calls = Proc(p).calls + 1, !.ret = "miss"]]
            /\ UNCHANGED store
            /\ ConcFrame

\* get, lines 79-83: the fetched row is expired: DELETE by url_hash, commit
ConcGetDeleteExpired ==
    \E p \in ConcProcs :
        /\ Proc(p).at = "selected"
        /\ is_expired(Proc(p).t, Proc(p).created_at)
        /\ store' = [store EXCEPT ![ConcHash] = NoRow]
        /\ conc' = [conc EXCEPT !.pc[p] = BackFromGet(p, "miss")]
        /\ ConcFrame

\* get, lines 86-91: UPDATE of the access statistics by url_hash, commit
ConcGetUpdate ==
    \E p \in ConcProcs :
        /\ Proc(p).at = "selected"
        /\ ~is_expired(Proc(p).t, Proc(p).created_at)
        /\ store' = IF store[ConcHash].present
                    THEN [store EXCEPT ![ConcHash].accessed_at = Proc(p).t,
                                       ![ConcHash].access_count = @ + 1]
                    ELSE store
        /\ conc' = [conc EXCEPT !.pc[p].at = "updated"]
        /\ ConcFrame

\* get, lines 93-94: json.loads of the fetched text succeeds
ConcGetLoad ==
    \E p \in ConcProcs :
        /\ Proc(p).at = "updated"
        /\ Proc(p).data # JCorrupt
        /\ conc' = [conc EXCEPT !.pc[p] = BackFromGet(p, "hit")]
        /\ UNCHANGED store
        /\ ConcFrame

\* get, lines 95-99: json.loads raises: DELETE by url_hash, commit
ConcGetDeleteCorrupt ==
    \E p \in ConcProcs :
        /\ Proc(p).at = "updated"
        /\ Proc(p).data = JCorrupt
        /\ store' = [store EXCEPT ![ConcHash] = NoRow]
        /\ conc' = [conc EXCEPT !.pc[p] = BackFromGet(p, "miss")]
        /\ ConcFrame

\* set, lines 101-113: one INSERT OR REPLACE, committed
ConcSet ==
    \E p \in ConcProcs, data \in SamplePayloads :
        /\ MayBegin(p)
        /\ store' = CacheSet(store, now, ConcKey[1], data, ConcKey[2])
        /\ conc' = [conc EXCEPT
                !.pc = [q \in ConcProcs |->
                          IF q = p THEN [Proc(p) EXCEPT !.calls = @ + 1]
                          ELSE IF Proc(q).at # "idle"
                          THEN [Proc(q) EXCEPT !.overtaken = TRUE]
                          ELSE Proc(q)],
                !.last = [set |-> TRUE, payload |-> data, at |-> now]]
        /\ ConcFrame

\* the stored text stops being valid JSON (a torn or foreign write); what
\* the last set wrote is gone with it
ConcDamage ==
    /\ ~conc.damaged
    /\ store[ConcHash].present
    /\ store[ConcHash].data # JCorrupt
    /\ store' = [store EXCEPT ![ConcHash].data = JCorrupt]
    /\ conc' = [conc EXCEPT !.damaged = TRUE, !.last = NoSet]
    /\ ConcFrame

NextConcurrent ==
    \/ ConcGetSelect \/ ConcGetDeleteExpired \/ ConcGetUpdate \/ ConcGetLoad
    \/ ConcGetDeleteCorrupt \/ ConcSet \/ ConcDamage \/ Tick

SpecConcurrent == InitCache /\ [][NextConcurrent]_vars

-----------------------------------------------------------------------------
(* SpecOptions: under every sampled environment, the sources build the
   options they hand to YoutubeDL when they resolve a url, when they plan a
   download and when the download task starts *)

EnvTimeoutTexts ==
    {EnvUnset, EnvText(""), EnvText("abc"), EnvText(" 30 "), EnvText("5"),
     EnvText("15"), EnvText("20"), EnvText("60"), EnvText("-1")}
EnvRetriesTexts ==
    {EnvUnset, EnvText("0"), EnvText("1"), EnvText("3"), EnvText("10"), EnvText("x")}

Handed(opts, src) ==
    [socket_timeout |-> opts.socket_timeout, retries |-> opts.retries,
     fragment_retries |-> opts.fragment_retries, platform |-> src]

OptionsFrame ==
    UNCHANGED <<raw, built, pcCat, store, now, ticks, lastOp, hist, call, fbme_cache,
                plan, conc, ig, task, jobs>>

\* the options of one stage are kept side by side; entering another stage
\* starts afresh
HandOver(stage, src, opts) ==
    LET side == IF src = "youtube" THEN "fast"
                ELSE IF src \in FlakyPlatforms THEN "slow"
                ELSE "other"
        base == IF ydl.stage = stage THEN ydl
                ELSE [ydl EXCEPT !.stage = stage, !.fast = NoOpts,
                                 !.slow = NoOpts, !.other = NoOpts]
    IN  /\ ydl' = [base EXCEPT ![side] = Handed(opts, src)]
        /\ OptionsFrame

\* analyze of the source's module
ResolveOptions ==
    \E src \in Sources : HandOver("resolve", src, ResolveOpts(ydl.env, src))

\* prepare_download of the source's module
PlanOptions ==
    \E src \in Sources : HandOver("plan", src, PlanYdlOpts(ydl.env, src))

\* _prepare_download_opts of the download task
TaskOptions ==
    \E src \in Sources : HandOver("task", src, TaskOpts(ydl.env, src))

InitOptions ==
    /\ CatIdle /\ CacheIdle /\ CallIdle /\ PlanIdle /\ ConcIdle
    /\ IgIdle /\ TaskIdle /\ JobsIdle
    /\ \E t \in EnvTimeoutTexts, r \in EnvRetriesTexts :
          ydl = [NoYdl EXCEPT !.env = [SOCKET_TIMEOUT |-> t, RETRIES |-> r]]

NextOptions == ResolveOptions \/ PlanOptions \/ TaskOptions

SpecOptions == InitOptions /\ [][NextOptions]_vars

-----------------------------------------------------------------------------
(* SpecInstagram: instagram.analyze on every sampled answer of
   analyze_platform *)

FieldSamples(url) == {NoField, Field(""), Field(url)}

ResourceSamples ==
    {NoResources,
     [list |-> TRUE, items |-> <<>>],
     [list |-> TRUE, items |-> <<Field("https://cdn/1.jpg")>>],
     [list |-> TRUE, items |-> <<Field("https://cdn/1.jpg"), Field("https://cdn/2.jpg")>>],
     [list |-> TRUE, items |-> <<Field("https://cdn/1.jpg"), NoField>>],
     [list |-> TRUE, items |-> <<Field("https://cdn/1.jpg"), Field("")>>]}

InfoDicts ==
    [none : {FALSE},
     thumbnail : FieldSamples("https://cdn/tn.jpg"),
     thumbnail_url : FieldSamples("https://cdn/tu.jpg"),
     display_url : FieldSamples("https://cdn/display.jpg"),
     display_resources : ResourceSamples]

AnalysisAnswers == InfoDicts \cup {[NoInfoDict EXCEPT !.none = TRUE]}

InstagramFrame ==
    UNCHANGED <<raw, built, pcCat, store, now, ticks, lastOp, hist, call, fbme_cache,
                plan, conc, ydl, task, jobs>>

\* analyze_platform returns
IgAnalysisReturns ==
    /\ ig.pc = "idle"
    /\ \E info \in AnalysisAnswers : ig' = [ig EXCEPT !.pc = "analyzed", !.info = info]
    /\ InstagramFrame

\* lines 80-99
IgFinish ==
    /\ ig.pc = "analyzed"
    /\ ig' = [ig EXCEPT !.pc = "returned", !.out = instagram_finish(ig.info)]
    /\ InstagramFrame

\* the next call
IgAgain ==
    /\ ig.pc = "returned"
    /\ ig' = NoIg
    /\ InstagramFrame

NextInstagram == IgAnalysisReturns \/ IgFinish \/ IgAgain

SpecInstagram == Init /\ [][NextInstagram]_vars

-----------------------------------------------------------------------------
(* Claims about the catalog builders (SpecCatalog) *)

Built == pcCat = "built"
Mp4 == built.result.mp4

\* what the builder that ran does with one raw descriptor
Eligible(f) == IF built.builder = "generic" THEN BaseEligible(f) ELSE YtEligible(f)
DedupKey(f) == IF built.builder = "generic" THEN BaseKey(f) ELSE <<YtKey(f), 0>>
EntryOf(f) ==
    IF built.builder = "generic" THEN BaseVideoEntry(f, built.result.duration)
    ELSE YtEntry(f, built.result.duration)

\* the (height, fps, container lowercased, bitrate) key of an output Format
FormatKey(e) == <<e.height, e.fps, Lower(e.ext), e.tbr>>

\* position in raw of the descriptor an output Format was built from
RawIndex(e) == CHOOSE i \in 1..Len(raw) : raw[i].format_id = e.format_id

\* indexes of the raw descriptors the builder does not discard
EligibleIdx == {i \in 1..Len(raw) : Eligible(raw[i])}

C4_KeepsGreatestTuple ==
    Built =>
        \A k \in 1..Len(Mp4) : \A i \in EligibleIdx :
            DedupKey(raw[i]) = DedupKey(raw[RawIndex(Mp4[k])])
                => TupleLeq(EntryTuple(EntryOf(raw[i])), EntryTuple(Mp4[k]))

\* C5: the video list is in descending preference-tuple order, so no Format
\* ranks below one whose tuple it dominates.
C5_DescendingOrder ==
    Built =>
        \A i, j \in 1..Len(Mp4) :
            i < j => TupleLeq(EntryTuple(Mp4[j]), EntryTuple(Mp4[i]))

\* C6: exactly one entry is retained per dedup key, and a retained entry has
\* replaced every earlier descriptor of its key only by a strictly greater
\* tuple: among descriptors with equal tuples the first seen is the one kept.
C6_FirstSeenWinsTies ==
    Built =>
        /\ \A i \in EligibleIdx :
              Cardinality({k \in 1..Len(Mp4) :
                  DedupKey(raw[RawIndex(Mp4[k])]) = DedupKey(raw[i])}) = 1
        /\ \A k \in 1..Len(Mp4) : \A j \in EligibleIdx :
              (j < RawIndex(Mp4[k]) /\ DedupKey(raw[j]) = DedupKey(raw[RawIndex(Mp4[k])]))
                  => TupleLess(EntryTuple(EntryOf(raw[j])), EntryTuple(Mp4[k]))

\* C6 witness: the spec's scenario, two 720p mp4 avc/aac descriptors with
\* different urls and equal tuples; the YouTube builder kept the first.
C6_Witness ==
    /\ Built
    /\ built.builder = "youtube"
    /\ Len(raw) = 2
    /\ EligibleIdx = {1, 2}
    /\ raw[1].height = 720 /\ raw[1].url # 0 /\ raw[2].url # 0
    /\ YtProgressive(raw[1])
    /\ EntryTuple(EntryOf(raw[1])) = EntryTuple(EntryOf(raw[2]))
    /\ YtKey(raw[1]) = YtKey(raw[2])
    /\ Len(Mp4) = 1
    /\ Mp4[1].format_id = "f1"

-----------------------------------------------------------------------------
(* Claims about the TTL cache (SpecCache) *)

\* what get(url, platform) returns when called in the current state
Peek(k) == CacheGet(store, now, k[1], k[2]).ret

\* the store holds an entry for the pair k = (url, platform)
Present(st, k) ==
    /\ st[get_url_hash(k[1])].present
    /\ st[get_url_hash(k[1])].platform = k[2]

\* the entry of k is in the store and older than the ttl
Expired(k) ==
    /\ Present(store, k)
    /\ is_expired(now, store[get_url_hash(k[1])].created_at)

\* this step is the cache operation op on the pair k
OpOn(op, k) ==
    /\ now' = now
    /\ lastOp'.op = op
    /\ lastOp'.url = k[1]
    /\ lastOp'.platform = k[2]

\* C7: after set(url, payload, source) at time t with no later write to that
\* (source, url) key, get(url, source) returns the stored payload while
\* now - t <= ttl and nil once now - t > ttl.
C7_RoundTripUntilTtl ==
    \A k \in CacheKeys :
        hist[k].set =>
            Peek(k) = IF now - hist[k].at <= ttl_seconds
                      THEN Hit(hist[k].payload) ELSE Miss

\* C8: storing a result for (source B, url) never changes or removes what get
\* returns for (source A, url) when A differs from B.
C8_OtherSourceUntouched ==
    [][ \A k \in CacheKeys : \A b \in CacheKeys :
            (b[1] = k[1] /\ b[2] # k[2] /\ OpOn("set", b))
                => CacheGet(store', now', k[1], k[2]).ret = Peek(k) ]_vars

\* C9: a get that finds an expired entry returns nil and deletes it; no get
\* returns a payload older than the ttl; and an expired entry stays in the
\* store across a get or set of any other key.
C9_LazyExpiry ==
    [][ \A k \in CacheKeys :
          /\ (Expired(k) /\ OpOn("get", k))
                => (~lastOp'.hit /\ ~Present(store', k))
          /\ (OpOn("get", k) /\ lastOp'.hit)
                => (Present(store, k) /\ ~Expired(k))
          /\ \A b \in CacheKeys \ {k} :
                (Expired(k) /\ (OpOn("get", b) \/ OpOn("set", b)))
                    => Present(store', k) ]_vars

\* the row the pair k hashes to
RowOf(st, k) == st[get_url_hash(k[1])]

\* C26: a get that finds a non-expired entry whose stored text fails
\* deserialization returns nil and deletes the row, so that the key is absent
\* afterwards; and a set is followed by a get that returns what was set.
C26_CorruptPurged ==
    [][ \A k \in CacheKeys :
          /\ (OpOn("get", k) /\ Present(store, k) /\ ~Expired(k)
                 /\ RowOf(store, k).data = JCorrupt)
                => (~lastOp'.hit /\ ~RowOf(store', k).present)
          /\ OpOn("set", k)
                => CacheGet(store', now', k[1], k[2]).ret = Hit(lastOp'.value) ]_vars

\* C26 witness: a get has just found a corrupt, non-expired text, returned nil
\* and left no row behind
C26_Witness ==
    /\ lastOp.op = "get"
    /\ lastOp.found = "corrupt"
    /\ ~lastOp.hit
    /\ ~store[get_url_hash(lastOp.url)].present

\* C27: a get that returns a payload increments the entry's access_count by
\* exactly 1 and sets accessed_at to the current time, and leaves the stored
\* payload and created_at as they were (a read never extends the time to
\* live); a set replaces the row whatever it held and restarts created_at and
\* access_count.
C27_ReadRefreshesSetRestarts ==
    [][ \A k \in CacheKeys :
          /\ (OpOn("get", k) /\ lastOp'.hit) =>
                /\ RowOf(store', k).access_count = RowOf(store, k).access_count + 1
                /\ RowOf(store', k).accessed_at = now
                /\ RowOf(store', k).data = RowOf(store, k).data
                /\ RowOf(store', k).created_at = RowOf(store, k).created_at
                /\ Present(store', k)
          /\ OpOn("set", k) =>
                RowOf(store', k) =
                    [present |-> TRUE, url |-> k[1], platform |-> k[2],
                     data |-> JsonDumps(lastOp'.value), created_at |-> now,
                     accessed_at |-> now, access_count |-> 1] ]_vars

\* C27 witness: an entry written earlier has just been read: the get returned
\* its payload, the count went up and accessed_at moved past created_at
C27_Witness ==
    /\ lastOp.op = "get"
    /\ lastOp.hit
    /\ store[get_url_hash(lastOp.url)].access_count = 2
    /\ store[get_url_hash(lastOp.url)].accessed_at = now
    /\ store[get_url_hash(lastOp.url)].created_at < now

-----------------------------------------------------------------------------
(* Claims about the analyze entry points (Spec, SpecRepeat) *)

\* any(p.search(url) for p in URL_PATTERNS) of the named source
MatchesSource(source, url) ==
    CASE source = "youtube" -> youtube_URL_PATTERNS(url)
      [] source = "facebook" -> facebook_URL_PATTERNS(url)
      [] source = "instagram" -> instagram_URL_PATTERNS(url)
      [] source = "tiktok" -> tiktok_URL_PATTERNS(url)
      [] source = "twitter" -> twitter_URL_PATTERNS(url)
      [] source = "pinterest" -> pinterest_URL_PATTERNS(url)
      [] source = "linkedin" -> linkedin_URL_PATTERNS(url)
      [] source = "reddit" -> reddit_URL_PATTERNS(url)
      [] source = "snapchat" -> snapchat_URL_PATTERNS(url)
      [] OTHER -> naver_URL_PATTERNS(url)

Called == call.outcome # "none"

\* the network steps of the last call that are calls of the Extractor
ExtractorCalls(c) == {i \in 1..Len(c.stages) : c.stages[i] \in ExtractorStages}

\* C1: for every source, a call with a url that matches none of the source's
\* patterns ends with InvalidInput (the ValueError of pattern validation) and
\* has made no Extractor, scrape, OpenGraph or redirect request, also when
\* the force-fallback override is set.
C1_InvalidUrlNoNetwork ==
    (Called /\ ~MatchesSource(call.source, call.url)) =>
        /\ call.outcome = "error"
        /\ call.error = "ValueError"
        /\ call.msg = "invalid_url"
        /\ call.stages = <<>>

\* C2: every failed call ends with a ConnectionError, except that it ends with
\* a ValueError exactly when the url failed the source's pattern validation
\* before any network request.
C2_ErrorClasses ==
    (Called /\ call.outcome = "error") =>
        IF ~MatchesSource(call.source, call.normalized)
        THEN call.error = "ValueError" /\ call.stages = <<>>
        ELSE call.error = "ConnectionError"

\* the store holds a result for (source, url)
Stored(st, url, source) ==
    /\ get_url_hash(url) \in DOMAIN st
    /\ st[get_url_hash(url)].present
    /\ st[get_url_hash(url)].platform = source

\* C10: a successful call of any source leaves its result in the cache under
\* (source, normalized url); a call that directly follows a successful call of
\* the same source for a url of the same normalized form is served from the
\* cache without any Extractor call; a failed call adds nothing to the cache.
C10_CacheWriteThrough ==
    [][ call'.seq # call.seq =>
          /\ (call'.outcome = "ok" /\ call'.via # "cache") =>
                /\ Stored(store', call'.normalized, call'.source)
                /\ JsonLoads(store'[get_url_hash(call'.normalized)].data) = call'.result
          /\ (call.outcome = "ok" /\ call'.source = call.source
                /\ call'.normalized = call.normalized) =>
                (call'.via = "cache" /\ ExtractorCalls(call') = {})
          /\ call'.outcome = "error" =>
                \A h \in DOMAIN store : store'[h].present => store'[h] = store[h] ]_vars

-----------------------------------------------------------------------------
(* Claims about the planners (SpecPlan) *)

PlanReturned == plan.done /\ plan.r.outcome = "ok"

\* the requested id reads mp3_<n>, n a string of decimal digits
IsMp3Request(fid) ==
    StartsWith(fid, "mp3_") /\ Len(fid) > 4 /\ AllDigits(SubSeq(fid, 5, Len(fid)))

\* the n of mp3_<n>
RequestedBitrate(fid) == ParseInt(SubSeq(fid, 5, Len(fid)))

InRange(n) == 32 <= n /\ n <= 320

\* every Format of the catalog the planner worked on
CatalogFormats(c) ==
    Flatten([i \in 1..Len(c.items) |-> c.items[i].formats]) \o c.mp4 \o c.mp3 \o c.jpg

\* C11: every successful return of a planner is either a result carrying
\* only direct_url, or a plan carrying a format selector and no direct_url;
\* never both and never neither.
C11_ExclusiveShapes ==
    PlanReturned =>
        \/ plan.r.keys = {"direct_url"} /\ plan.r.direct_url # 0
        \/ /\ "format" \in plan.r.keys /\ plan.r.format # ""
           /\ "direct_url" \notin plan.r.keys

\* C11 witness: a Facebook request for a video id answered with the url the
\* helper scraped, as {direct_url} alone
C11_Witness ==
    /\ PlanReturned
    /\ plan.source = "facebook"
    /\ plan.format_id = "f3"
    /\ plan.r.keys = {"direct_url"}
    /\ plan.r.direct_url = HelperUrls.scrape

\* C12: for a request mp3_<n>, n any non-negative integer of any number of
\* digits, the returned plan of every source extracts mp3 at
\* max(32, min(320, n)) kbps.
C12_Mp3BitrateClamped ==
    (PlanReturned /\ IsMp3Request(plan.format_id)) =>
        /\ plan.r.codec = "mp3"
        /\ plan.r.quality =
              IntStr(IF RequestedBitrate(plan.format_id) < 32 THEN 32
                     ELSE IF RequestedBitrate(plan.format_id) > 320 THEN 320
                     ELSE RequestedBitrate(plan.format_id))

\* C13: a request mp3_500 gives a plan at 320 kbps with the clamp flagged,
\* and a warning is emitted exactly when the requested bitrate lies outside
\* [32, 320].
C13_ClampFlagged ==
    (PlanReturned /\ IsMp3Request(plan.format_id)) =>
        /\ plan.format_id = "mp3_500" => (plan.r.quality = "320" /\ plan.r.warned)
        /\ plan.r.warned <=> ~InRange(RequestedBitrate(plan.format_id))

\* the named audio presets of the planner: audio, bestaudio, mp3, mp3_<n>, m4a
NamedPreset(fid) ==
    fid \in {"audio", "bestaudio", "mp3", "m4a"} \/ IsMp3Request(fid) \/ Mp3Group(fid) # ""

\* C14: when the requested id is a plain format id (no preset, no selector)
\* that no Format of the resolved catalog carries, the planner fails: it
\* returns neither a direct URL nor a plan.
C14_FormatNotFound ==
    (/\ plan.done /\ plan.resolved
     /\ ~NamedPreset(plan.format_id)
     /\ plan.format_id # "best" /\ ~Contains(plan.format_id, "+")
     /\ \A i \in 1..Len(CatalogFormats(plan.catalog)) :
           CatalogFormats(plan.catalog)[i].format_id # plan.format_id
     /\ ~(plan.r.outcome = "error" /\ plan.r.msg = "invalid_url"))
        => (plan.r.outcome = "error" /\ plan.r.keys = {})

\* C15: asked for the id of an image Format of the resolved catalog, the
\* planner returns exactly {direct_url} with that Format's stored URL.
C15_ImageDirectUrl ==
    (plan.done /\ plan.resolved
        /\ ~(plan.r.outcome = "error" /\ plan.r.msg = "invalid_url")) =>
        \A i \in 1..Len(CatalogFormats(plan.catalog)) :
            LET f == CatalogFormats(plan.catalog)[i]
            IN  (f.type = "image" /\ f.format_id = plan.format_id) =>
                    /\ plan.r.outcome = "ok"
                    /\ plan.r.keys = {"direct_url"}
                    /\ plan.r.direct_url = f.url

\* C28: for the named audio presets, in every planner, the ids audio and
\* bestaudio give a plan that selects the best audio source and has no
\* extraction or transcode step, and the ids mp3 and m4a give a plan with an
\* audio-extraction step to the container asked for.
C28_AudioPresetPlans ==
    PlanReturned =>
        /\ plan.format_id \in {"audio", "bestaudio"} =>
              /\ "direct_url" \notin plan.r.keys
              /\ plan.r.format \in {"bestaudio", "bestaudio/best"}
              /\ "postprocessors" \notin plan.r.keys
        /\ plan.format_id \in {"mp3", "m4a"} =>
              /\ "postprocessors" \in plan.r.keys
              /\ plan.r.codec = plan.format_id

-----------------------------------------------------------------------------
(* Claims about the results of analyze (Spec) *)

Succeeded == Called /\ call.outcome = "ok"

\* the spec's provenance names for the code's 'source' values
ProvenanceTag(source) ==
    CASE source = "yt-dlp" -> "primary-extractor"
      [] source = "direct" -> "direct-scrape"
      [] source = "opengraph" -> "opengraph"
      [] OTHER -> ""

\* every Format of every item of a result
ItemFormats(result) == Flatten([i \in 1..Len(result.items) |-> result.items[i].formats])

Range(s) == {s[i] : i \in 1..Len(s)}

\* C16: in every result of every source, instant_available is true exactly
\* when the video list holds a Format that is progressive and has a direct
\* URL.
C16_InstantAvailableIff ==
    Succeeded =>
        (("instant_available" \in call.result.keys /\ call.result.instant_available)
            <=> \E f \in Range(call.result.mp4) : f.is_progressive /\ f.has_direct_url)

\* the helper was called as the fallback and its page scrape found the url
ScrapeYieldedUrl ==
    /\ call.facts.fallback_helper.extract \in {"scrape_only", "nourl", "raise"}
    /\ call.facts.fallback_helper.scrape = "url"

\* C17: when PRIMARY_EXTRACT raised, extraction failed and the Facebook
\* scrape yields a URL, the call returns a result with count 1,
\* instant_available true and exactly one video Format, tagged direct-scrape.
C17_DirectScrapeResult ==
    (Called /\ call.source = "facebook" /\ call.facts.primary = "raise"
        /\ call.facts.extraction = "error" /\ ScrapeYieldedUrl) =>
        /\ call.outcome = "ok"
        /\ call.result.count = 1
        /\ "instant_available" \in call.result.keys /\ call.result.instant_available
        /\ Len(call.result.mp4) = 1
        /\ call.result.mp4[1].type = "video"
        /\ call.result.mp4[1].url = HelperUrls.scrape
        /\ ProvenanceTag(call.result.mp4[1].source) = "direct-scrape"
        /\ Len(SelectSeq(ItemFormats(call.result), LAMBDA f : f.type = "video")) = 1

\* C17 witness: both Extractor calls raised, the scrape answered
C17_Witness ==
    /\ Called /\ call.source = "facebook" /\ ~call.forced
    /\ call.facts.primary = "raise" /\ call.facts.extraction = "error"
    /\ ScrapeYieldedUrl
    /\ call.stages =
          << "PRIMARY_EXTRACT", "FLAT_EXTRACT", "HELPER_EXTRACT", "DIRECT_SCRAPE" >>
    /\ call.via = "direct"

\* C18: a result that comes from the direct scrape or the OpenGraph scrape in
\* place of failed extraction, or from the forced fallback, has one item,
\* exactly one Format in total, and that Format's source names the stage.
C18_FallbackResultIsMinimal ==
    (Succeeded /\ call.via \in {"direct", "forced", "opengraph"}) =>
        /\ call.result.count = 1
        /\ Len(call.result.items) = 1
        /\ Len(ItemFormats(call.result)) = 1
        /\ ProvenanceTag(ItemFormats(call.result)[1].source)
              = IF call.via = "opengraph" THEN "opengraph" ELSE "direct-scrape"

\* C19: when Facebook's extraction succeeded without a progressive video and
\* the helper then returned a URL, the result keeps every video, audio and
\* image Format, the title, the duration and the items of the primary catalog
\* and adds the direct Format.
C19_AugmentKeepsPrimary ==
    (Called /\ call.source = "facebook" /\ call.facts.extraction = "ok"
        /\ ~HasProgressive(call.facts.primary_result.mp4)
        /\ get_facebook_mp4(call.facts.fallback_helper).url # 0) =>
        /\ call.outcome = "ok"
        /\ Range(call.facts.primary_result.mp4) \subseteq Range(call.result.mp4)
        /\ Range(call.facts.primary_result.mp3) \subseteq Range(call.result.mp3)
        /\ Range(call.facts.primary_result.jpg) \subseteq Range(call.result.jpg)
        /\ call.result.title = call.facts.primary_result.title
        /\ call.result.duration = call.facts.primary_result.duration
        /\ Len(call.result.items) = Len(call.facts.primary_result.items)
        /\ \A i \in 1..Len(call.facts.primary_result.items) :
              call.result.items[i].id = call.facts.primary_result.items[i].id
        /\ \E f \in Range(call.result.mp4) :
              f.url = get_facebook_mp4(call.facts.fallback_helper).url
                 /\ ProvenanceTag(f.source) = "direct-scrape"

\* how often a call ran the named network step
StageCount(c, name) == Cardinality({i \in 1..Len(c.stages) : c.stages[i] = name})

\* C20: within one call each of PRIMARY_EXTRACT, FLAT_EXTRACT, DIRECT_SCRAPE
\* and the OpenGraph scrape runs at most once, whatever the stages answer and
\* whether or not the forced fallback is set.
C20_StagesAtMostOnce ==
    Called =>
        \A name \in {"PRIMARY_EXTRACT", "FLAT_EXTRACT", "DIRECT_SCRAPE", "OG_HTTPX"} :
            StageCount(call, name) <= 1

\* no two Formats of the list carry the same format_id
DistinctIds(fs) ==
    \A i \in 1..Len(fs) : \A j \in 1..Len(fs) :
        i # j => fs[i].format_id # fs[j].format_id

\* C21: within one result the format ids are pairwise distinct, across the
\* video, audio and image lists and across the Formats of all its items.
C21_FormatIdsDistinct ==
    Succeeded =>
        /\ DistinctIds(call.result.mp4 \o call.result.mp3 \o call.result.jpg)
        /\ DistinctIds(ItemFormats(call.result))
        /\ DistinctIds(call.result.images)

\* the result holds no Format of any kind, in its lists or in its items
NoFormats(result) ==
    /\ result.mp4 = <<>> /\ result.mp3 = <<>> /\ result.jpg = <<>>
    /\ result.images = <<>> /\ ItemFormats(result) = <<>>

\* C23: when the Extractor answered but classification yields no video, no
\* audio and no image Format, the call fails with the no-media error: no call
\* returns a result whose format lists are all empty.
C23_NoEmptyResult ==
    Called =>
        /\ call.outcome = "ok" => ~NoFormats(call.result)
        /\ (call.outcome = "error" /\ call.msg = "no_media") => call.error = "ValueError"

-----------------------------------------------------------------------------
(* Claims about the fields of the Formats (SpecCatalog) *)

\* a codec is present when the descriptor names one other than 'none'
CodecPresent(c) == c # "" /\ c # "none"

\* C22: a video Format is flagged is_progressive only if the raw descriptor
\* it was built from carries both a video codec and an audio codec, a codec
\* that is absent or 'none' counting as not present.
C22_ProgressiveNeedsBothCodecs ==
    Built =>
        \A i \in 1..Len(Mp4) :
            Mp4[i].is_progressive =>
                /\ CodecPresent(raw[RawIndex(Mp4[i])].vcodec)
                /\ CodecPresent(raw[RawIndex(Mp4[i])].acodec)

\* every video and audio Format of the built catalog
BuiltFormats == built.result.mp4 \o built.result.mp3

\* the size in bytes the upstream reported for the stream a Format was built
\* from, 0 when it reported none or the Format stands for no raw stream
UpstreamSize(e) ==
    IF \E i \in 1..Len(raw) : raw[i].format_id = e.format_id
    THEN raw[RawIndex(e)].filesize
    ELSE 0

\* C24: in every Format the exact size (filesize_mb) is populated only from a
\* size the upstream reported; a size derived from bitrate and duration shows
\* only in estimated_size_mb or in a size text that carries the approximate
\* mark; the exact and the estimated size are never both populated.
C24_EstimateNeverExact ==
    Built =>
        \A i \in 1..Len(BuiltFormats) :
            LET e == BuiltFormats[i]
            IN  /\ e.filesize_mb # 0 => UpstreamSize(e) # 0
                /\ (UpstreamSize(e) = 0 /\ e.size.mb # 0) => e.size.mark = "~"
                /\ ~(e.filesize_mb # 0 /\ e.estimated_size_mb # 0)

-----------------------------------------------------------------------------
(* Claims about the cache under concurrent callers (SpecConcurrent) *)

\* no caller is inside a call
Quiescent == \A p \in ConcProcs : Proc(p).at = "idle"

\* this step is the DELETE of caller p's get
DeletesInGet(p) ==
    /\ Proc(p).at \in {"selected", "updated"}
    /\ conc'.pc[p].at = "idle"
    /\ conc'.pc[p].ret = "miss"

\* C25: under any interleaving of the get and set calls of concurrent
\* callers on one key no entry is lost: a get whose SELECT saw the previous
\* entry (expired or corrupt) does not delete the entry a set has committed
\* since, and once all calls have returned get yields the payload of the
\* last committed set.
C25_ConcurrentGetSet ==
    /\ [][ \A p \in ConcProcs :
              (DeletesInGet(p) /\ Proc(p).overtaken /\ conc.last.set)
                  => store'[ConcHash] = store[ConcHash] ]_vars
    /\ []( (Quiescent /\ conc.last.set /\ ~is_expired(now, conc.last.at))
              => Peek(ConcKey) = Hit(conc.last.payload) )

\* C29: under every environment, the options handed over for a flaky source
\* carry a strictly larger socket timeout and strictly more retries than
\* the options handed over for YouTube at the same stage, when resolving
\* and when planning a download.
C29_FlakyOutlastsFast ==
    (ydl.stage \in {"resolve", "plan"} /\ ydl.fast.platform # "" /\ ydl.slow.platform # "")
        => /\ ydl.slow.socket_timeout > ydl.fast.socket_timeout
           /\ ydl.slow.retries > ydl.fast.retries

\* a raw audio-only stream that carries a url
RawAudioWithUrl(f) == CodecPresent(f.acodec) /\ ~CodecPresent(f.vcodec) /\ f.url # 0

\* the catalog describes a video item
VideoItemBuilt ==
    /\ Built
    /\ built.builder = "generic" => built.result.media_type = "video"

\* C30: for a resolved video item every raw audio-only stream that has a url
\* yields an entry of the result's audio list: a Format of type audio that
\* carries the stream's url and has_direct_url.
C30_AudioStreamsCollected ==
    VideoItemBuilt =>
        \A i \in 1..Len(raw) :
            RawAudioWithUrl(raw[i]) =>
                \E j \in 1..Len(built.result.mp3) :
                    /\ built.result.mp3[j].type = "audio"
                    /\ built.result.mp3[j].url = raw[i].url
                    /\ built.result.mp3[j].has_direct_url

\* the first non-empty value among thumbnail, thumbnail_url, display_url and
\* the src of the last display_resources entry, the default icon when there
\* is none
FirstNonEmpty(info) ==
    LET dr == info.display_resources
        cands == <<info.thumbnail, info.thumbnail_url, info.display_url>>
                   \o (IF dr.list /\ dr.items # <<>>
                       THEN <<dr.items[Len(dr.items)]>> ELSE <<>>)
        full == {i \in 1..Len(cands) : cands[i].has /\ cands[i].v # ""}
    IN  IF full = {} THEN DefaultIcon
        ELSE cands[CHOOSE i \in full : \A j \in full : i <= j].v

\* C31: instagram.analyze returns None when the analysis returned None, and
\* otherwise returns the result with thumbnail_url set to the first
\* non-empty value among thumbnail, thumbnail_url, display_url, the src of
\* the last display_resources entry, and the default icon.
C31_ThumbnailUrlChain ==
    ig.pc = "returned" =>
        IF ig.info.none THEN ig.out.ret = "None"
        ELSE /\ ig.out.ret = "dict"
             /\ ig.out.thumbnail_url = FirstNonEmpty(ig.info)

\* the second, flattened extraction was attempted in the last call
FlatAttempted ==
    \E i \in 1..Len(call.stages) : call.stages[i] \in {"FLAT_EXTRACT", "PLAYLIST_FLAT_RETRY"}

\* the sources whose analyze returns what analyze_platform returns or raises
GenericOnly == {"instagram", "tiktok", "twitter", "pinterest", "snapchat", "naver"}

\* the flattened extraction is attempted exactly when the first one raised
C32_FlatIffPrimaryRaised == Called => (FlatAttempted <=> call.facts.primary = "raise")

\* a scrape result stands in the place of the extraction result only when
\* the extraction was attempted and failed, or the override is set
C32_ScrapeOnlyAfterFailure ==
    (Succeeded /\ call.via \in {"direct", "opengraph", "augment"}) =>
        (call.facts.extraction = "error" \/ call.forced)

\* when both extractions raise, the error that leaves analyze_platform is
\* the one the first extraction raised
C32_PrimaryErrorPropagates ==
    (Called /\ call.source \in GenericOnly
        /\ call.facts.primary = "raise" /\ call.facts.flat = "raise") =>
            /\ call.outcome = "error"
            /\ call.msg = call.facts.primary_msg

\* C32: fallback stages are entered only on failure of the preceding stage:
\* FLAT_EXTRACT is attempted if and only if PRIMARY_EXTRACT raised in the
\* same call; a DIRECT_SCRAPE / OPENGRAPH_SCRAPE result replaces the
\* extraction result only after the extraction stages failed or under the
\* force-fallback override; and when both extractions fail in the generic
\* resolver the error propagated is the primary's.
C32_FallbackOnlyOnFailure ==
    /\ C32_FlatIffPrimaryRaised
    /\ C32_ScrapeOnlyAfterFailure
    /\ C32_PrimaryErrorPropagates

\* the Facebook planner was asked for an id that is no image id, no audio
\* preset and no instant-audio entry of the catalog
HelperCase ==
    /\ plan.done /\ plan.source = "facebook"
    /\ ~(plan.r.outcome = "error" /\ plan.r.msg = "invalid_url")
    /\ ~StartsWith(plan.format_id, "img")
    /\ ~IsAudioPreset(str_lower(plan.format_id))
    /\ (plan.format_id # "" /\ ~Contains(plan.format_id, "+")) =>
          (plan.resolved /\ InstantAudioUrl(plan.catalog, plan.format_id) = 0)

\* the url the helper handed back, 0 when it raised or found none
HelperGave ==
    IF plan.helper.extract = "url" THEN HelperUrls.extract
    ELSE IF plan.helper.scrape = "url" THEN HelperUrls.scrape
    ELSE 0

\* the url of the progressive entry with the requested id in the catalog of
\* the second re-analysis, 0 when there is none
RecheckUrl ==
    LET hits == {i \in 1..Len(plan.recheck.mp4) :
                    plan.recheck.mp4[i].format_id = plan.format_id}
        k == IF hits = {} THEN 0 ELSE CHOOSE i \in hits : \A j \in hits : i <= j
    IN  IF plan.recheck.ok /\ k # 0 /\ plan.format_id # "best"
           /\ ~Contains(plan.format_id, "+")
           /\ plan.recheck.mp4[k].is_progressive /\ plan.recheck.mp4[k].has_direct_url
        THEN plan.recheck.mp4[k].url
        ELSE 0

\* C33: for Facebook and a format id that is neither an image, an
\* instant-audio entry nor an audio preset, the planner calls the helper
\* before the generic paths: a url from the helper is returned as
\* {direct_url} alone; a helper that raises or finds nothing is swallowed and
\* the plan is the generic progressive url if there is one, the merge plan
\* otherwise, never an error.
C33_HelperFirstThenGeneric ==
    HelperCase =>
        /\ plan.helper # HelperNotCalled
        /\ HelperGave # 0 =>
              (plan.r.keys = {"direct_url"} /\ plan.r.direct_url = HelperGave)
        /\ HelperGave = 0 =>
              /\ plan.r.outcome = "ok"
              /\ RecheckUrl # 0 =>
                    (plan.r.keys = {"direct_url"} /\ plan.r.direct_url = RecheckUrl)
              /\ RecheckUrl = 0 =>
                    ("format" \in plan.r.keys /\ "direct_url" \notin plan.r.keys
                        /\ plan.r.merge = "mp4")

\* C33 witnesses: the helper's url returned although the catalog has a
\* progressive entry of that id; and a failed helper followed by the merge
\* plan
C33_Witness ==
    /\ HelperCase
    /\ HelperGave = HelperUrls.scrape
    /\ RecheckUrl # 0
    /\ plan.r.direct_url = HelperUrls.scrape

C33_WitnessFallThrough ==
    /\ HelperCase
    /\ plan.helper.extract = "raise"
    /\ RecheckUrl = 0
    /\ plan.r.outcome = "ok"
    /\ "format" \in plan.r.keys

\* the catalog the planner worked on: for YouTube the formats its
\* extract_info returned, for the other sources the two re-analyses, which
\* agree
OneCatalog ==
    /\ plan.done /\ plan.resolved
    /\ ~(plan.r.outcome = "error" /\ plan.r.msg = "invalid_url")
    /\ plan.source # "youtube" =>
          (plan.recheck.ok /\ plan.recheck.mp4 = plan.catalog.mp4)

\* the progressive entries with a direct url that carry the requested id
ChosenProgressive ==
    {i \in 1..Len(plan.catalog.mp4) :
        /\ plan.catalog.mp4[i].format_id = plan.format_id
        /\ plan.catalog.mp4[i].is_progressive
        /\ plan.catalog.mp4[i].has_direct_url}

\* a progressive entry with a direct url is answered with that url
C34_ProgressiveDirect ==
    OneCatalog =>
        \A i \in ChosenProgressive :
            /\ plan.r.keys = {"direct_url"}
            /\ plan.r.direct_url = plan.catalog.mp4[i].url

\* an id that holds '+' reaches the merge plan as it is
C34_CombinationUnmodified ==
    (PlanReturned /\ Contains(plan.format_id, "+") /\ "format" \in plan.r.keys) =>
        plan.r.format = plan.format_id

\* C34: for every source, a format id that matches a catalog video entry
\* with is_progressive and has_direct_url is planned as {direct_url} with
\* that entry's url, not as a merge or transcode plan; and a format id that
\* contains '+' is passed to the merge plan unmodified.
C34_ProgressiveIsDirect ==
    /\ C34_ProgressiveDirect
    /\ C34_CombinationUnmodified

\* the planner has answered a request for a Format the fallback result of
\* the last analyze call offers
FulfilAsked ==
    /\ plan.done /\ FallbackOffered
    /\ plan.source = call.source /\ plan.url = call.url
    /\ \E f \in OfferedFormats : f.format_id = plan.format_id

\* C35: every Format a result of the OPENGRAPH_SCRAPE or DIRECT_SCRAPE
\* fallback offers ('direct-mp4', 'img0') can be fulfilled: the same source's
\* prepare_download with the same url and that id returns {direct_url} with
\* the offered url, also while the Extractor keeps failing for the url.
C35_FallbackFormatsFulfillable ==
    FulfilAsked =>
        \A f \in OfferedFormats :
            f.format_id = plan.format_id =>
                /\ plan.r.outcome = "ok"
                /\ plan.r.keys = {"direct_url"}
                /\ plan.r.direct_url = f.url

-----------------------------------------------------------------------------
(* SpecTask: one run of universal_download_task, statement by statement,   *)
(* under every behaviour of the file system and of the Extractor           *)

\* re.search(p, s) for a pattern p without operators
Search(s, p) ==
    \E i \in 1..(Len(s) - Len(p) + 1) : SubSeq(s, i, i + Len(p) - 1) = p

\* _detect_platform, lines 38-57: the first platform of the dict, in its
\* order, one of whose patterns is found in the url, case ignored
platform_patterns ==
    << [platform |-> "youtube", patterns |-> {"youtube.com", "youtu.be"}],
       [platform |-> "instagram", patterns |-> {"instagram.com"}],
       [platform |-> "facebook", patterns |-> {"facebook.com", "fb.watch"}],
       [platform |-> "twitter", patterns |-> {"twitter.com", "x.com"}],
       [platform |-> "tiktok", patterns |-> {"tiktok.com"}],
       [platform |-> "pinterest", patterns |-> {"pinterest.com"}],
       [platform |-> "snapchat", patterns |-> {"snapchat.com"}],
       [platform |-> "linkedin", patterns |-> {"linkedin.com"}],
       [platform |-> "reddit", patterns |-> {"reddit.com"}] >>

\* the patterns of 'naver': (?:^|\.)naver\.com, video\.naver\.com, tv\.naver\.com
NaverFound(l) ==
    \/ StartsWith(l, "naver.com") \/ Search(l, ".naver.com")
    \/ Search(l, "video.naver.com") \/ Search(l, "tv.naver.com")

_detect_platform(url) ==
    LET l == str_lower(url)
        hit(i) == \E q \in platform_patterns[i].patterns : Search(l, q)
    IN  IF \E i \in 1..Len(platform_patterns) : hit(i)
        THEN platform_patterns[CHOOSE i \in 1..Len(platform_patterns) :
                                   hit(i) /\ \A j \in 1..(i - 1) : ~hit(j)].platform
        ELSE IF NaverFound(l) THEN "naver"
        ELSE "unknown"

\* facebook.py URL_PATTERNS, lines 16-22, searched with re.I
FacebookPaths ==
    {"photo.php", "permalink.php", "video.php", "watch", "/posts/", "/photos/",
     "/videos/", "/reel/", "/reels/"}

FacebookUrlPattern(url) ==
    LET l == str_lower(url)
        after(prefix) ==
            {SubSeq(l, i + Len(prefix), Len(l)) :
                i \in {j \in 1..(Len(l) - Len(prefix) + 1) :
                          SubSeq(l, j, j + Len(prefix) - 1) = prefix}}
        hosts(h) == after("http://" \o h) \cup after("https://" \o h)
    IN  \/ \E rest \in hosts("facebook.com/") \cup hosts("www.facebook.com/") :
              \E q \in FacebookPaths : Search(rest, q)
        \/ hosts("fb.watch/") # {}
        \/ hosts("fb.me/") # {}

\* the words that make an error message a cookies hint, lines 249 and 259
CookieKeywords == {"login", "private", "forbidden", "403", "unauthorized", "401"}
CookiesRelated(msg) == \E k \in CookieKeywords : Search(str_lower(msg), k)

\* set_progress, progress.py lines 18-36: the status is the record written
SetProgress(t, status) == [t EXCEPT !.written = Append(@, status)]

\* the except branch, lines 244-265: 'error' is written, and written again
\* with the cookies hint when the message holds a keyword
TaskExcept(t, msg) ==
    LET once == SetProgress(t, "error")
        hinted == IF CookiesRelated(msg) THEN SetProgress(once, "error") ELSE once
    IN  [hinted EXCEPT !.pc = "done", !.ret = "failure", !.error = msg,
                       !.cookies = CookiesRelated(msg)]

\* the hook, lines 170-193: what a progress event of the downloader writes
HookStatus(st) ==
    CASE st = "downloading" -> "downloading"
      [] st \in {"finished", "complete"} -> "processing"
      [] st = "error" -> "error"
      [] OTHER -> ""

TaskUrls ==
    {"https://www.facebook.com/watch/?v=1234567890", "https://fb.watch/abc/",
     "https://fb.me/abc", "https://WWW.Facebook.com/user/videos/1234567890/",
     "https://youtu.be/abc", "https://www.instagram.com/p/abc/", OtherUrl}

\* platform as the caller passes it; "" is None
TaskPlatforms == {"", "facebook", "Facebook", "youtube", "instagram"}
TaskFormatIds == {"best", "f1"}
HookEvents == {"downloading", "finished", "complete", "error", "postprocessing"}
TaskErrors == {"HTTP Error 403: Forbidden", "Unable to download video data"}

\* the progress events of one download handled by the hook
MaxHooks == 2

TaskFrame ==
    UNCHANGED <<raw, built, pcCat, store, now, ticks, lastOp, hist, call, fbme_cache,
                plan, conc, ydl, ig, jobs>>

\* lines 153-165: detection, the Facebook refusal, the first status
TaskStart ==
    \E url \in TaskUrls, arg \in TaskPlatforms, format_id \in TaskFormatIds :
        LET platform == IF arg = "" THEN _detect_platform(url) ELSE arg
            t == [NoTask EXCEPT !.url = url, !.arg = arg, !.platform = platform,
                                !.format_id = format_id]
        IN  /\ task.pc = "idle"
            /\ task' = IF str_lower(platform) = "facebook"
                       THEN [t EXCEPT !.pc = "done", !.ret = "raised",
                                      !.error = "RuntimeError"]
                       ELSE [SetProgress(t, "preparing") EXCEPT !.pc = "prepare"]
            /\ TaskFrame

\* _prepare_download_opts, lines 58-149: makedirs may fail; a specific
\* YouTube format without '+' is probed with one Extractor call whose
\* failure is swallowed; then 'downloading' is written and the download starts
TaskPrepare ==
    \E made \in BOOLEAN :
        LET probes == IF /\ task.platform = "youtube"
                         /\ task.format_id \notin {"best", "audio"}
                         /\ Mp3Group(task.format_id) = ""
                         /\ ~Contains(task.format_id, "+")
                      THEN 1 ELSE 0
        IN  /\ task.pc = "prepare"
            /\ task' = IF ~made THEN TaskExcept(task, "Permission denied: downloads")
                       ELSE [SetProgress(task, "downloading")
                                EXCEPT !.pc = "download", !.extractor = @ + probes + 1]
            /\ TaskFrame

\* a progress event reaches the hook while extract_info runs
TaskHook ==
    \E st \in HookEvents :
        /\ task.pc = "download" /\ task.hooks < MaxHooks
        /\ task' = [(IF HookStatus(st) = "" THEN task ELSE SetProgress(task, HookStatus(st)))
                       EXCEPT !.hooks = @ + 1]
        /\ TaskFrame

\* extract_info ends, lines 198-213: it raises, returns nothing, an empty
\* playlist, or an info
TaskExtracted ==
    \E end \in {"info", "none", "empty_playlist"} \cup TaskErrors :
        /\ task.pc = "download"
        /\ task' = CASE end = "info" -> [task EXCEPT !.pc = "find"]
                     [] end = "none" -> TaskExcept(task, "Failed to extract video information")
                     [] end = "empty_playlist" -> TaskExcept(task, "Empty playlist")
                     [] OTHER -> TaskExcept(task, end)
        /\ TaskFrame

\* _find_final_file and the 'finished' status, lines 215-222
TaskFindFile ==
    \E found \in BOOLEAN :
        /\ task.pc = "find"
        /\ task' = IF found THEN [SetProgress(task, "finished") EXCEPT !.pc = "result"]
                   ELSE TaskExcept(task, "File not found after download/merge")
        /\ TaskFrame

\* the result dict, lines 224-242, built inside the try: os.path.getsize
\* raises when the file is no longer there
TaskResult ==
    \E there \in BOOLEAN :
        /\ task.pc = "result"
        /\ task' = IF there THEN [task EXCEPT !.pc = "done", !.ret = "success"]
                   ELSE TaskExcept(task, "No such file or directory")
        /\ TaskFrame

NextTask ==
    \/ TaskStart \/ TaskPrepare \/ TaskHook \/ TaskExtracted \/ TaskFindFile
    \/ TaskResult

SpecTask == Init /\ [][NextTask]_vars


-----------------------------------------------------------------------------
(* C36: the statuses one task run writes *)

TaskEnded == task.pc = "done" /\ task.ret # "raised"
TerminalStatuses == {"finished", "error"}

\* preparing, then downloading/processing updates, then one terminal status
C36_OneTerminalLast ==
    TaskEnded =>
        LET w == task.written
        IN  /\ Len(w) >= 2
            /\ w[1] = "preparing"
            /\ w[Len(w)] \in TerminalStatuses
            /\ \A i \in 2..(Len(w) - 1) : w[i] \in {"downloading", "processing"}

\* once 'finished' has been written nothing is written after it
C36_NothingAfterFinished ==
    \A i \in 1..Len(task.written) :
        task.written[i] = "finished" => i = Len(task.written)

\* success=True is returned exactly when the last status written is 'finished'
C36_SuccessIffFinished ==
    TaskEnded =>
        (task.ret = "success" <=> task.written[Len(task.written)] = "finished")

\* C36: for every run of universal_download_task the statuses written form
\* the sequence preparing, downloading/processing updates, exactly one
\* terminal status; nothing (in particular no 'error') is written after
\* 'finished'; and the task returns success=True if and only if the last
\* status written is 'finished'.
C36_ProgressSequence ==
    /\ C36_OneTerminalLast
    /\ C36_NothingAfterFinished
    /\ C36_SuccessIffFinished


-----------------------------------------------------------------------------
(* C37: no server-side download of Facebook content *)

\* C37: for every Facebook url (facebook.com, fb.watch, fb.me), with the
\* platform passed by the caller or detected from the url, the task raises
\* before it writes any progress and before any Extractor call.
C37_FacebookRefused ==
    (task.pc # "idle" /\ FacebookUrlPattern(task.url)) =>
        /\ task.ret = "raised"
        /\ task.written = <<>>
        /\ task.extractor = 0


-----------------------------------------------------------------------------
(* C38: the three player clients of a YouTube video analysis *)

\* a call of youtube analyze for a valid url that is not playlist-like
YtVideoCall ==
    /\ call.source = "youtube" /\ call.outcome # "none"
    /\ youtube_URL_PATTERNS(call.url) /\ ~is_playlist_like(call.url)

GaveFormats(i) == call.facts.clients[i].kind = "formats"

\* ios, web, android are queried in that order, all three, whatever a client
\* answered
C38_AllClientsInOrder ==
    YtVideoCall =>
        /\ call.stages = << "CLIENT_ios", "CLIENT_web", "CLIENT_android" >>
        /\ Len(call.facts.clients) = Len(clients)

\* the call fails with ConnectionError exactly when no client returned formats
C38_ConnectionErrorIffNoFormats ==
    YtVideoCall =>
        ((call.outcome = "error" /\ call.error = "ConnectionError")
            <=> \A i \in 1..Len(call.facts.clients) : ~GaveFormats(i))

\* title and duration are those of the first client that returned formats
C38_MetadataFromFirst ==
    \A i \in 1..Len(call.facts.clients) :
        (YtVideoCall /\ GaveFormats(i) /\ \A j \in 1..(i - 1) : ~GaveFormats(j)) =>
            /\ call.outcome = "ok"
            /\ call.result.title = ClientInfo(clients[i]).title
            /\ call.result.duration = ClientInfo(clients[i]).duration

\* C38: for a non-playlist YouTube url, analyze queries the player clients
\* ios, web, android in that order and always all three; the resolution
\* fails with ConnectionError if and only if no client returned any format;
\* title and duration come from the first client that returned formats.
C38_ThreeClients ==
    /\ C38_AllClientsInOrder
    /\ C38_ConnectionErrorIffNoFormats
    /\ C38_MetadataFromFirst


-----------------------------------------------------------------------------
(* SpecJobs: one download of main_api.py: start_download, the background   *)
(* process_download and the status queries of the client                   *)

\* SQL NULL, Python None
Null == "<NULL>"

\* the columns of the downloads table in the order of CREATE TABLE, lines 36-46
DownloadColumns == << "id", "url", "title", "format", "status", "file_path", "created_at" >>

ColumnIndex(name) == CHOOSE i \in 1..Len(DownloadColumns) : DownloadColumns[i] = name

\* a row of SELECT *: one value per column, in table order
MkRow(f) == [i \in 1..Len(DownloadColumns) |-> f[DownloadColumns[i]]]

\* row[k] of Python, k counted from 0
Col(row, k) == row[k + 1]

\* UPDATE downloads SET name = value
SetColumn(row, name, value) == [row EXCEPT ![ColumnIndex(name)] = value]

\* INSERT INTO downloads (id, url, status, created_at), line 110
InsertedRow(id, url) ==
    MkRow([id |-> id, url |-> url, title |-> Null, format |-> Null,
           status |-> "downloading", file_path |-> Null, created_at |-> "t0"])

\* get_download_status, lines 74-82: 404 without a row; else the response
\* model is built from row[0], row[3], row[2], row[4], and a status that is
\* not a string fails its validation
StatusAnswer(table) ==
    IF table = <<>> THEN [code |-> 404, status |-> "not found", file_path |-> Null]
    ELSE IF Col(table, 3) = Null
    THEN [code |-> 500, status |-> Null, file_path |-> Col(table, 4)]
    ELSE [code |-> 200, status |-> Col(table, 3), file_path |-> Col(table, 4)]

JobUrls == {"https://youtu.be/abc", OtherUrl}
JobFormats == {"best", "mp4"}
JobConverts == {Null, "mp3"}
JobTitles == {"Title", "Unknown"}

\* the status queries of one client
MaxAsks == 2

JobsFrame ==
    UNCHANGED <<raw, built, pcCat, store, now, ticks, lastOp, hist, call, fbme_cache,
                plan, conc, ydl, ig, task>>

\* start_download, lines 68-71: the id is returned with status 'queued' and
\* the work is left to a background task; nothing is written
StartDownload ==
    \E url \in JobUrls, format \in JobFormats, convert \in JobConverts :
        /\ jobs.pc = "idle"
        /\ jobs' = [NoJobs EXCEPT !.pc = "queued", !.id = "uuid-1", !.url = url,
                                  !.format = format, !.convert = convert]
        /\ JobsFrame

\* process_download, lines 106-111: the row is inserted as 'downloading';
\* when the INSERT fails the except branch updates a row that is not there
ProcessInsert ==
    \E inserted \in BOOLEAN :
        /\ jobs.pc = "queued"
        /\ jobs' = IF inserted
                   THEN [jobs EXCEPT !.pc = "downloading",
                                     !.table = InsertedRow(jobs.id, jobs.url)]
                   ELSE [jobs EXCEPT !.pc = "done"]
        /\ JobsFrame

\* lines 113-139: the download ends and the row becomes 'completed' with
\* title and file path, or 'failed'
ProcessDownload ==
    \E ok \in BOOLEAN, title \in JobTitles :
        /\ jobs.pc = "downloading"
        /\ jobs' = [jobs EXCEPT
                      !.pc = "done",
                      !.table = IF ok
                                THEN SetColumn(SetColumn(SetColumn(@, "status", "completed"),
                                                         "title", title),
                                               "file_path", "/tmp/" \o jobs.id \o ".mp4")
                                ELSE SetColumn(@, "status", "failed")]
        /\ JobsFrame

\* the client asks for the status of the id it was given
GetDownloadStatus ==
    /\ jobs.pc # "idle" /\ Len(jobs.answers) < MaxAsks
    /\ jobs' = [jobs EXCEPT !.answers = Append(@, StatusAnswer(jobs.table))]
    /\ JobsFrame

NextJobs == StartDownload \/ ProcessInsert \/ ProcessDownload \/ GetDownloadStatus

SpecJobs == Init /\ [][NextJobs]_vars

\* the background task queue runs every task it was given, and a running
\* download ends
SpecJobsLive == SpecJobs /\ WF_vars(ProcessInsert) /\ WF_vars(ProcessDownload)

-----------------------------------------------------------------------------
(* C39: the status of a started download *)

StatusNames == {"queued", "downloading", "completed", "failed"}
TerminalNames == {"completed", "failed"}

\* the status stored for the id, Null without a row
StoredStatus == IF jobs.table = <<>> THEN Null ELSE jobs.table[ColumnIndex("status")]

\* no query of a returned id is answered 'not found'
C39_NeverNotFound ==
    \A i \in 1..Len(jobs.answers) : jobs.answers[i].code # 404

\* every query is answered with one of the four status names
C39_StatusNamed ==
    \A i \in 1..Len(jobs.answers) :
        jobs.answers[i].code = 200 /\ jobs.answers[i].status \in StatusNames

\* a terminal status is reached
C39_TerminalReached == (jobs.pc # "idle") ~> (StoredStatus \in TerminalNames)

\* a terminal status is never left
C39_TerminalKept ==
    [][(StoredStatus \in TerminalNames) => (StoredStatus' = StoredStatus)]_vars

\* C39: once start_download has returned an id, get_download_status never
\* answers 'not found' for it; the status it reports is one of queued,
\* downloading, completed, failed; and completed or failed is eventually
\* reached and never left.
C39_DownloadStatus ==
    /\ [](C39_NeverNotFound /\ C39_StatusNamed)
    /\ C39_TerminalReached
    /\ C39_TerminalKept


-----------------------------------------------------------------------------
(* C40: clear_expired against the expiry rule of get *)

\* a step of clear_expired: the clock stands still and the operation is recorded
ClearExpiredStep == lastOp'.op = "clear_expired" /\ now' = now /\ ticks' = ticks

\* get would find the row of h past the ttl, delete it and return None
GetWouldExpire(h) ==
    /\ store[h].present
    /\ GetFound(store, now, store[h].url, store[h].platform) = "expired"
    /\ ~CacheGet(store, now, store[h].url, store[h].platform).ret.hit

\* C40: clear_expired agrees with get's expiry rule: at a given instant it
\* removes exactly the entries for which get would return nothing because
\* now - created_at > ttl, returns their number, and leaves every other
\* entry, one whose age equals the ttl included, unchanged.
C40_ClearExpiredAgreesWithGet ==
    [][ClearExpiredStep =>
          /\ \A h \in DOMAIN store :
                store'[h] = IF GetWouldExpire(h) THEN NoRow ELSE store[h]
          /\ lastOp'.count = Cardinality({h \in DOMAIN store : GetWouldExpire(h)})]_vars

\* clear_expired has removed an entry and left one whose age is exactly the ttl
C40_Witness ==
    /\ lastOp.op = "clear_expired" /\ lastOp.count >= 1
    /\ \E h \in DOMAIN store :
          store[h].present /\ now - store[h].created_at = ttl_seconds


=========================================================================
